---- MODULE Spec2Model ----
(***************************************************************************)
(* Webhook relay: signed-URL token codec, receive -> persist -> forward    *)
(* pipeline, forward executor, retention purge and the rule store, as      *)
(* implemented by src/src/worker.ts, src/src/forward.ts and the stats      *)
(* module (recordHit / purgeOldHits).                                      *)
(*                                                                         *)
(* Every await of a handler is a point where other requests interleave,    *)
(* so a handler is a chain of actions, one per await; the code between     *)
(* two awaits is one atomic action.                                        *)
(***************************************************************************)
EXTENDS Integers, Sequences, FiniteSets, TLC

\* ------------------------------------------------------------------ bounds
MaxReqs   == 1    \* inbound requests of any kind (specification Spec)
MaxConc   == 2    \* concurrent deliveries to one endpoint (SpecConc)
MaxTicks  == 1    \* clock advances in one behaviour
MaxOps    == 2    \* management requests (rules, purge) in one behaviour
DigestLen == 2    \* bytes of the modelled HMAC digest (32 in the runtime)
MaxPolls  == 2    \* polls of the open page in flight at once
MaxExtra  == 1    \* stored deliveries past the page size of the hits query, after two

\* --------------------------------------------------------- program values
Null     == -1        \* SQL NULL / JS null in an integer position
NullText == "NULL"    \* SQL NULL / JS null in a text position
NoToken  == ""        \* env.API_TOKEN undefined: falsy

RetentionMs      == 7 * 24 * 60 * 60 * 1000
ForwardTimeoutMs == 10000
BodyCap          == 4096

Secrets   == <<"admin:pw1", "admin:pw2">>
\* A user:pass secret whose password holds the cookie separator.
SecretSemi   == "admin:p;w"
KnownSecrets == Secrets \o <<SecretSemi>>
\* Endpoint ids an operator may type, beside the two of Endpoints.
IdSlash  == "ci/build"
Endpoints == <<"line", "gh">>
KnownIds  == Endpoints \o <<IdSlash, "ci">>
Url1      == "https://target.example/hook"

Min(a, b) == IF a < b THEN a ELSE b

IndexOf(seq, x) == CHOOSE i \in 1..Len(seq) : seq[i] = x

\* ------------------------------------------------------------ token codec
B64 ==
  << "A","B","C","D","E","F","G","H","I","J","K","L","M","N","O","P",
     "Q","R","S","T","U","V","W","X","Y","Z","a","b","c","d","e","f",
     "g","h","i","j","k","l","m","n","o","p","q","r","s","t","u","v",
     "w","x","y","z","0","1","2","3","4","5","6","7","8","9","+","/" >>

\* (variant: a digest of the id alone, whatever the secret)
HmacSha256Unkeyed(secret, id) ==
  [k \in 1..DigestLen |-> (255 + 134 * IndexOf(KnownIds, id) + 50 * k) % 256]

\* crypto.subtle HMAC-SHA256 is the runtime's primitive: a deterministic
\* keyed function, modelled by a fixed table that is injective in
\* (secret, id) on the bounded domain and yields DigestLen bytes.
HmacSha256(secret, id) ==
  [k \in 1..DigestLen |->
     (255 + 67 * IndexOf(KnownSecrets, secret) + 134 * IndexOf(KnownIds, id)
          + 50 * k) % 256]

RECURSIVE Btoa(_)
Btoa(bytes) ==
  IF Len(bytes) = 0 THEN << >>
  ELSE IF Len(bytes) = 1 THEN
    << B64[(bytes[1] \div 4) + 1], B64[((bytes[1] % 4) * 16) + 1], "=", "=" >>
  ELSE IF Len(bytes) = 2 THEN
    << B64[(bytes[1] \div 4) + 1],
       B64[((bytes[1] % 4) * 16) + (bytes[2] \div 16) + 1],
       B64[((bytes[2] % 16) * 4) + 1], "=" >>
  ELSE
    << B64[(bytes[1] \div 4) + 1],
       B64[((bytes[1] % 4) * 16) + (bytes[2] \div 16) + 1],
       B64[((bytes[2] % 16) * 4) + (bytes[3] \div 64) + 1],
       B64[(bytes[3] % 64) + 1] >> \o Btoa(SubSeq(bytes, 4, Len(bytes)))

ReplaceAll(s, from, to) == [i \in 1..Len(s) |-> IF s[i] = from THEN to ELSE s[i]]

RECURSIVE StripPadding(_)
StripPadding(s) ==
  IF Len(s) > 0 /\ s[Len(s)] = "="
  THEN StripPadding(SubSeq(s, 1, Len(s) - 1))
  ELSE s

generateWebhookToken(id, secret) ==
  StripPadding(ReplaceAll(ReplaceAll(Btoa(HmacSha256(secret, id)), "+", "-"), "/", "_"))

\* Variant: a comparison that also accepts the standard base64 alphabet.
verifyWebhookTokenLoose(id, token, secret) ==
  ReplaceAll(ReplaceAll(token, "+", "-"), "/", "_") = generateWebhookToken(id, secret)

verifyWebhookToken(id, token, secret) ==
  token = generateWebhookToken(id, secret)

\* ----------------------------------------------------------------- inputs
\* Request bodies: len is the length of the text, json whether JSON.parse
\* accepts it, summary the length of the digest parseGitHubEvent builds from
\* it, events the LINE sources found under parsed.events.
BodyText == [name |-> "text", len |-> 5000, json |-> FALSE, summary |-> 0,
             events |-> << >>]
BodyLine == [name |-> "line", len |-> 300, json |-> TRUE, summary |-> 40,
             events |-> << [groupId |-> "C1", userId |-> "U1"] >>]

\* parseGitHubEvent, by the length of the text it returns.  A payload is
\* given by the lengths of the texts the digest is built from: repo, who,
\* action, branch, title, comment, the issue number, the first lines of the
\* commits, and json, the length of JSON.stringify(payload, null, 2).
Digits(n) == IF n < 10 THEN 1 ELSE IF n < 100 THEN 2 ELSE 3
RECURSIVE SumLines(_)
SumLines(lines) ==
  IF lines = << >> THEN 0
  ELSE 1 + Len("  - ") + lines[1] + SumLines(Tail(lines))
parseGitHubEventLen(event, p) ==
  LET head == Len("[") + p.repo + Len("] ")
  IN CASE event = "push" ->
            head + p.who + Len(" pushed ") + Digits(Len(p.commits))
              + Len(" commit(s) to ") + p.branch
              + SumLines(SubSeq(p.commits, 1, Min(Len(p.commits), 5)))
              + (IF Len(p.commits) > 5
                 THEN 1 + Len("  ... and ") + Digits(Len(p.commits) - 5)
                        + Len(" more")
                 ELSE 0)
       [] event = "pull_request" ->
            head + p.who + Len(" ") + p.action + Len(" PR #") + Digits(p.number)
              + Len(": ") + p.title
       [] event = "issue_comment" ->
            head + p.who + Len(" commented on #") + Digits(p.number)
              + Len(": ") + Min(p.comment, 120)
       [] OTHER ->
            Len("[") + Len(event) + Len("] ")
              + (IF p.json > 2048 THEN 2048 + 1 + Len("... (truncated)")
                 ELSE p.json)

\* Payloads: a pull request, a comment of 3000 characters, a push of six
\* commits whose first lines have 1000 characters, and an event the digest
\* has no case for.
Payload(commits, title, comment, json) ==
  [repo |-> 12, who |-> 5, action |-> 6, branch |-> 4, number |-> 7,
   commits |-> commits, title |-> title, comment |-> comment, json |-> json]
GithubBody(name, event, len, p) ==
  [name |-> name, len |-> len, json |-> TRUE,
   summary |-> parseGitHubEventLen(event, p), events |-> << >>]
BodyPull    == GithubBody("pull", "pull_request", 900, Payload(<< >>, 60, 0, 1100))
BodyComment == GithubBody("comment", "issue_comment", 3900,
                          Payload(<< >>, 60, 3000, 4300))
BodyPush    == GithubBody("push", "push", 7000,
                          Payload(<<1000, 1000, 1000, 1000, 1000, 1000>>, 0, 0, 7800))
BodyOther   == GithubBody("other", "deployment", 6000, Payload(<< >>, 0, 0, 6500))

\* The inbound requests a sender makes: a LINE webhook on the raw route, a
\* delivery that is not JSON on the github route, a long text on a suffix
\* route.
Inbound ==
  { [route |-> "raw",    id |-> "line", body |-> BodyLine],
    [route |-> "github", id |-> "gh",   body |-> BodyText],
    [route |-> "suffix", id |-> "gh",   body |-> BodyText] }

\* Path tokens a sender may present: the token issued under the first
\* secret, and that token with its first character replaced.
IssuedTokens(id) == {generateWebhookToken(id, Secrets[i]) : i \in 1..Len(Secrets)}
Tampered(t) == [t EXCEPT ![1] = IF t[1] = "A" THEN "B" ELSE "A"]
PathTokens(id) ==
  {generateWebhookToken(id, Secrets[1]),
   Tampered(generateWebhookToken(id, Secrets[1]))}

\* Outcomes of the outbound fetch: a response with a status, or a rejection
\* whose error may carry no message.
ResStatuses == {200, 404}
ErrMessages == {"fetch failed", NullText}
TimeoutMessage == "The operation was aborted due to timeout"

TickSteps == {RetentionMs, RetentionMs + 1}

\* ------------------------------------------------------------------ state
VARIABLES
  apiToken,   \* env.API_TOKEN (NoToken when not configured)
  lineToken,  \* env.LINE_CHANNEL_ACCESS_TOKEN configured?
  now,        \* Date.now(), in ms since the first instant of the behaviour
  hits,       \* table webhook_hits: id -> row
  hitOrigin,  \* per allocated hit id, the request that inserted it
  rules,      \* table forward_rules: set of rows
  aliases,    \* table aliases: set of rows
  aliasSeq,   \* largest alias id allocated so far (AUTOINCREMENT)
  reqs,       \* inbound webhook requests, in arrival order
  last,       \* response of the latest management request
  purgeRun,   \* purge calls since the latest insert; clock advanced since?
  ops,        \* management requests handled so far
  ui          \* the open page of the frontend: countdown, loading, polls

vars == <<apiToken, lineToken, now, hits, hitOrigin, rules, aliases, aliasSeq,
          reqs, last, purgeRun, ops, ui>>

\* The forward executor of a request: its position, the raw outcome of the
\* fetch (kind, res, err) and the locals status, error and forward_ms.
NoFwd == [pc |-> "none", start |-> Null, kind |-> "none", res |-> Null,
          err |-> NullText, status |-> Null, error |-> NullText, ms |-> Null,
          body |-> [name |-> NullText, form |-> "none", len |-> 0]]

\* No page of the frontend is open.
NoPage == [page |-> "none", remaining |-> 0, loading |-> FALSE, polls |-> << >>]

InitWith(secret) ==
  /\ apiToken = secret
  /\ lineToken = TRUE
  /\ now = 0
  /\ hits = << >>
  /\ hitOrigin = << >>
  /\ rules = {}
  /\ aliases = {}
  /\ aliasSeq = 0
  /\ reqs = << >>
  /\ last = [op |-> "none", status |-> 0, deleted |-> 0]
  /\ purgeRun = [calls |-> 0, ticked |-> FALSE]
  /\ ops = 0
  /\ ui = NoPage

Init == InitWith(Secrets[1])

\* ------------------------------------------------------------ rule lookup
\* Variant: the select without its where clause.
getForwardRuleAny(rs, endpoint) ==
  IF rs # {} THEN << CHOOSE r \in rs : TRUE >> ELSE << >>

\* getForwardRule: select ... where endpoint = ? limit 1; the row or null,
\* kept as a sequence of at most one row.
getForwardRule(rs, endpoint) ==
  IF \E r \in rs : r.endpoint = endpoint
  THEN << CHOOSE r \in rs : r.endpoint = endpoint >>
  ELSE << >>

\* Variant: persist unless both flags are off.
ShouldPersistUnlessDisabled(rule) ==
  ~(rule # << >> /\ rule[1].persist = FALSE /\ rule[1].enabled = FALSE)

\* rule?.persist === false ? null : recordHit(...)
ShouldPersist(rule) == ~(rule # << >> /\ rule[1].persist = FALSE)

\* Variant: forward whenever a target is configured.
ShouldForwardAnyRule(rule) == rule # << >> /\ rule[1].forward_url # ""

\* rule?.enabled && rule.forward_url
ShouldForward(rule) ==
  rule # << >> /\ rule[1].enabled = TRUE /\ rule[1].forward_url # ""

\* endpoint === "line" && c.env.LINE_CHANNEL_ACCESS_TOKEN (raw route only)
ShouldAutoAlias(route, endpoint, lineTok) ==
  route = "raw" /\ endpoint = "line" /\ lineTok

\* Variant: a route without the token check.
TokenAcceptedUnchecked(secret, id, token) == TRUE

\* if (c.env.API_TOKEN) { valid = verify(...); if (!valid) return 401 }
TokenAccepted(secret, id, token) ==
  secret = NoToken \/ verifyWebhookToken(id, token, secret)

\* ------------------------------------------------------------- hit store
PlaceholderPrefix == 25   \* "[unknown] (invalid JSON) "
PlaceholderCap    == 512

\* The body column written by each route: body.slice(0, 4096) on the raw
\* and suffix routes, the digest (or the invalid-JSON placeholder) on the
\* github route.
StoredBody(route, body) ==
  IF route = "github"
  THEN IF body.json
       THEN [name |-> body.name, form |-> "summary", len |-> body.summary]
       ELSE [name |-> body.name, form |-> "placeholder",
             len |-> PlaceholderPrefix + Min(body.len, PlaceholderCap)]
  ELSE [name |-> body.name, form |-> "raw", len |-> Min(body.len, BodyCap)]

StoredSuffix(route) ==
  IF route = "raw" THEN NullText
  ELSE IF route = "github" THEN "/github" ELSE "/sfx"

NewHit(rq) ==
  [endpoint |-> rq.id, suffix |-> StoredSuffix(rq.route),
   received_at |-> rq.received_at, response_ms |-> rq.response_ms,
   body_length |-> rq.body.len, body |-> StoredBody(rq.route, rq.body),
   forward_status |-> Null, forward_ms |-> Null, forward_error |-> NullText]

\* (variant: a plain rowid, one more than the largest id in the table)
NextHitIdReused(origin) ==
  IF DOMAIN hits = {} THEN 1
  ELSE 1 + CHOOSE i \in DOMAIN hits : \A j \in DOMAIN hits : j <= i
\* AUTOINCREMENT primary key: one more than the largest id ever allocated.
NextHitId(origin) == Len(origin) + 1

\* recordHit: insert into webhook_hits values (...); returns last_row_id.
recordHit(hs, origin, hit) ==
  [i \in (DOMAIN hs) \cup {NextHitId(origin)} |->
     IF i = NextHitId(origin) THEN hit ELSE hs[i]]

\* Variant: without a hit id the outcome lands on the newest row.
ForwardPatchLatest(hs, hitId, status, ms, error) ==
  [i \in DOMAIN hs |->
     IF i = hitId \/ (hitId = Null /\ \A j \in DOMAIN hs : j <= i)
     THEN [hs[i] EXCEPT !.forward_status = status, !.forward_ms = ms,
                        !.forward_error = error]
     ELSE hs[i]]

\* update webhook_hits set forward_* = ... where id = hitId, issued only
\* when hitId !== null.
ForwardPatch(hs, hitId, status, ms, error) ==
  IF hitId = Null THEN hs
  ELSE [i \in DOMAIN hs |->
          IF i = hitId
          THEN [hs[i] EXCEPT !.forward_status = status, !.forward_ms = ms,
                             !.forward_error = error]
          ELSE hs[i]]

\* purgeOldHits: delete from webhook_hits where received_at < cutoff.
PurgeCutoff(t) == t - RetentionMs
\* Variant: the delete with <= in place of <.
PurgeKeptInclusive(hs, t) ==
  {i \in DOMAIN hs : ~(hs[i].received_at <= PurgeCutoff(t))}
PurgeKept(hs, t) == {i \in DOMAIN hs : ~(hs[i].received_at < PurgeCutoff(t))}
purgeOldHits(hs, t) ==
  [hits |-> [i \in PurgeKept(hs, t) |-> hs[i]],
   deleted |-> Cardinality(DOMAIN hs) - Cardinality(PurgeKept(hs, t))]

\* ------------------------------------------------------------ alias store
\* Variant: insert or replace, which makes a fresh row.
UpsertAliasReplace(as, seq, value, label, t) ==
  {a \in as : a.value # value}
    \cup {[id |-> seq + 1, value |-> value, label |-> label, created_at |-> t]}

\* insert into aliases (value, label, created_at) values (...)
\*   on conflict (value) do update set label = excluded.label
UpsertAlias(as, seq, value, label, t) ==
  IF \E a \in as : a.value = value
  THEN {IF a.value = value THEN [a EXCEPT !.label = label] ELSE a : a \in as}
  ELSE as \cup {[id |-> seq + 1, value |-> value, label |-> label,
                 created_at |-> t]}

UpsertAliasSeq(as, seq, value) ==
  IF \E a \in as : a.value = value THEN seq ELSE seq + 1

\* extractIds: the group ids and the (user id, group id) pairs of a LINE
\* body; nothing when the body is not JSON.
GroupIdsOf(body) ==
  IF body.json
  THEN {body.events[i].groupId : i \in 1..Len(body.events)} \ {""}
  ELSE {}
UserIdsOf(body) ==
  IF body.json
  THEN {body.events[i].userId : i \in 1..Len(body.events)} \ {""}
  ELSE {}
extractIds(body) == GroupIdsOf(body) \cup UserIdsOf(body)

\* The display name the LINE API returns for an id, when it returns one.
LineName(id) == IF id = "C1" THEN "Team" ELSE "Nat"

RECURSIVE Perms(_)
Perms(S) ==
  IF S = {} THEN {<< >>}
  ELSE UNION {{<<x>> \o p : p \in Perms(S \ {x})} : x \in S}

NoAlias == [pc |-> "none", unknown |-> {}, results |-> << >>]

\* ------------------------------------------------------- receive pipeline
NewReq(route, id, token, body) ==
  [route |-> route, id |-> id, token |-> token, body |-> body,
   pc |-> "done", status |-> 401, bodyRead |-> FALSE,
   received_at |-> Null, response_ms |-> Null, rule |-> << >>,
   hitId |-> Null, inserted |-> 0, posts |-> 0, fwd |-> NoFwd,
   alias |-> NoAlias]

\* The body executeForward posts: the text read from the request (`body`
\* on the raw and suffix routes, `raw` on the github route), whole.
\* (variant: the body column of the Hit is posted)
PostedBodyStored(rq) == StoredBody(rq.route, rq.body)
PostedBody(rq) == [name |-> rq.body.name, form |-> "raw", len |-> rq.body.len]

\* Variant: the handler awaits executeForward before it answers.
RespondAwaitingForward(rq, hitId) ==
  [rq EXCEPT
     !.pc = IF ShouldForward(rq.rule) THEN "forwarding" ELSE "done",
     !.status = IF ShouldForward(rq.rule) THEN 0 ELSE 200,
     !.hitId = hitId,
     !.fwd = IF ShouldForward(rq.rule)
             THEN [NoFwd EXCEPT !.pc = "inflight", !.start = now,
                                !.body = PostedBody(rq)]
             ELSE NoFwd,
     !.posts = IF ShouldForward(rq.rule) THEN rq.posts + 1 ELSE rq.posts]

\* Steps 5 and 6 of the handler, run without an await in between:
\* waitUntil(executeForward(...)) starts the executor, which runs up to its
\* fetch (the POST is issued); waitUntil(autoAlias(...)) starts the alias
\* task, which returns at once when the body holds no id; then the 200.
Respond(rq, hitId) ==
  [rq EXCEPT
     !.pc = "done",
     !.status = 200,
     !.hitId = hitId,
     !.fwd = IF ShouldForward(rq.rule)
             THEN [NoFwd EXCEPT !.pc = "inflight", !.start = now,
                                !.body = PostedBody(rq)]
             ELSE NoFwd,
     !.posts = IF ShouldForward(rq.rule) THEN rq.posts + 1 ELSE rq.posts,
     !.alias = IF ShouldAutoAlias(rq.route, rq.id, lineToken)
               THEN IF extractIds(rq.body) = {}
                    THEN [NoAlias EXCEPT !.pc = "done"]
                    ELSE [NoAlias EXCEPT !.pc = "select"]
               ELSE NoAlias]

\* POST /w/:id/:token[/github|/:suffix] up to the rule lookup: the token
\* check (401 before anything else), then await c.req.text(), after which
\* received_at and response_ms are taken.  Nothing shared is touched, so
\* the two awaits are one step; the body read takes no clock advance.
Receive(route, id, token, body) ==
  /\ reqs' = Append(reqs,
       IF TokenAccepted(apiToken, id, token)
       THEN [NewReq(route, id, token, body) EXCEPT
               !.pc = "lookup", !.status = 0, !.bodyRead = TRUE,
               !.received_at = now, !.response_ms = 0]
       ELSE NewReq(route, id, token, body))
  /\ UNCHANGED <<ui, apiToken, lineToken, now, hits, hitOrigin, rules, aliases,
                 aliasSeq, last, purgeRun, ops>>

\* await getForwardRule(...); with persist === false no insert is awaited
\* and the handler runs to its response.
\* (variant: the handler answers and schedules before it inserts)
LookupRuleRespondFirst(r) ==
  /\ reqs[r].pc = "lookup"
  /\ reqs' = [reqs EXCEPT ![r] =
       Respond([reqs[r] EXCEPT !.rule = getForwardRule(rules, reqs[r].id)], Null)]
  /\ UNCHANGED <<ui, apiToken, lineToken, now, hits, hitOrigin, rules, aliases,
                 aliasSeq, last, purgeRun, ops>>
LookupRule(r) ==
  /\ reqs[r].pc = "lookup"
  /\ LET rq == [reqs[r] EXCEPT !.rule = getForwardRule(rules, reqs[r].id)]
     IN reqs' = [reqs EXCEPT ![r] =
          IF ShouldPersist(rq.rule)
          THEN [rq EXCEPT !.pc = "insert"]
          ELSE Respond(rq, Null)]
  /\ UNCHANGED <<ui, apiToken, lineToken, now, hits, hitOrigin, rules, aliases,
                 aliasSeq, last, purgeRun, ops>>

\* await recordHit(...), then the rest of the handler.
RecordHit(r) ==
  /\ reqs[r].pc = "insert"
  /\ hits' = recordHit(hits, hitOrigin, NewHit(reqs[r]))
  /\ hitOrigin' = Append(hitOrigin, r)
  /\ reqs' = [reqs EXCEPT ![r] =
       Respond([@ EXCEPT !.inserted = @ + 1], NextHitId(hitOrigin))]
  /\ purgeRun' = [calls |-> 0, ticked |-> FALSE]
  /\ UNCHANGED <<ui, apiToken, lineToken, now, rules, aliases, aliasSeq, last, ops>>

\* ------------------------------------------------------- forward executor
\* The fetch settles: a response (before the 10 s abort), a rejection, or
\* the abort itself; then forward_ms is taken and the write-back is issued:
\* with a hit id the update is awaited, without one the executor returns.
FetchOutcomes(elapsed) ==
  IF elapsed < ForwardTimeoutMs
  THEN {[kind |-> "response", status |-> st, error |-> NullText] : st \in ResStatuses}
       \cup {[kind |-> "throw", status |-> Null, error |-> m] : m \in ErrMessages}
  ELSE {[kind |-> "timeout", status |-> Null, error |-> TimeoutMessage]}

\* status = res.status, or in the catch: status = 0 and
\* error = err?.message ?? 'Unknown fetch error'.
SettledStatus(o) == IF o.kind = "response" THEN o.status ELSE 0
\* Variant: the catch without its fallback message.
SettledErrorRaw(o) == IF o.kind = "response" THEN NullText ELSE o.error

SettledError(o) ==
  IF o.kind = "response" THEN NullText
  ELSE IF o.error = NullText THEN "Unknown fetch error" ELSE o.error

ForwardSettle(r, o) ==
  /\ reqs[r].fwd.pc = "inflight"
  /\ o \in FetchOutcomes(now - reqs[r].fwd.start)
  /\ reqs' = [reqs EXCEPT ![r].fwd =
       [@ EXCEPT !.pc = IF reqs[r].hitId = Null THEN "done" ELSE "writing",
                 !.kind = o.kind, !.res = o.status, !.err = o.error,
                 !.status = SettledStatus(o),
                 !.error = SettledError(o),
                 !.ms = now - reqs[r].fwd.start]]
  /\ hits' = IF reqs[r].hitId = Null
             THEN ForwardPatch(hits, Null, SettledStatus(o),
                               now - reqs[r].fwd.start, SettledError(o))
             ELSE hits
  /\ UNCHANGED <<ui, apiToken, lineToken, now, hitOrigin, rules, aliases,
                 aliasSeq, last, purgeRun, ops>>

\* Variant: the update without its where clause.
ForwardWriteAll(r) ==
  /\ reqs[r].fwd.pc = "writing"
  /\ hits' = [i \in DOMAIN hits |->
       [hits[i] EXCEPT !.forward_status = reqs[r].fwd.status,
                       !.forward_ms = reqs[r].fwd.ms,
                       !.forward_error = reqs[r].fwd.error]]
  /\ reqs' = [reqs EXCEPT ![r].fwd.pc = "done"]
  /\ UNCHANGED <<ui, apiToken, lineToken, now, hitOrigin, rules, aliases,
                 aliasSeq, last, purgeRun, ops>>

\* The awaited update completes: the end of the executor.
ForwardWrite(r) ==
  /\ reqs[r].fwd.pc = "writing"
  /\ hits' = ForwardPatch(hits, reqs[r].hitId, reqs[r].fwd.status,
                          reqs[r].fwd.ms, reqs[r].fwd.error)
  /\ reqs' = [reqs EXCEPT ![r].fwd.pc = "done"]
  /\ UNCHANGED <<ui, apiToken, lineToken, now, hitOrigin, rules, aliases,
                 aliasSeq, last, purgeRun, ops>>

\* ---------------------------------------------------------------- autoAlias
\* select value from aliases; keep the ids that are not known.
AliasSelect(r) ==
  /\ reqs[r].alias.pc = "select"
  /\ LET unknown == {x \in extractIds(reqs[r].body) :
                        ~(\E a \in aliases : a.value = x)}
     IN reqs' = [reqs EXCEPT ![r].alias =
          IF unknown = {} THEN [@ EXCEPT !.pc = "done"]
          ELSE [@ EXCEPT !.pc = "fetch", !.unknown = unknown]]
  /\ UNCHANGED <<ui, apiToken, lineToken, now, hits, hitOrigin, rules, aliases,
                 aliasSeq, last, purgeRun, ops>>

\* Promise.all of the LINE lookups: each yields a name or null, and the
\* results are pushed in completion order.
AliasFetch(r, named, order) ==
  /\ reqs[r].alias.pc = "fetch"
  /\ named \subseteq reqs[r].alias.unknown
  /\ order \in Perms(named)
  /\ reqs' = [reqs EXCEPT ![r].alias =
       IF order = << >> THEN [@ EXCEPT !.pc = "done"]
       ELSE [@ EXCEPT !.pc = "insert", !.results = order]]
  /\ UNCHANGED <<ui, apiToken, lineToken, now, hits, hitOrigin, rules, aliases,
                 aliasSeq, last, purgeRun, ops>>

\* for (const {value, label} of results) await insert ... onConflictDoUpdate
AliasInsert(r) ==
  /\ reqs[r].alias.pc = "insert"
  /\ LET v == Head(reqs[r].alias.results)
     IN /\ aliases' = UpsertAlias(aliases, aliasSeq, v, LineName(v), now)
        /\ aliasSeq' = UpsertAliasSeq(aliases, aliasSeq, v)
  /\ reqs' = [reqs EXCEPT ![r].alias =
       [@ EXCEPT !.results = Tail(@),
                 !.pc = IF Tail(reqs[r].alias.results) = << >> THEN "done" ELSE "insert"]]
  /\ UNCHANGED <<ui, apiToken, lineToken, now, hits, hitOrigin, rules, last,
                 purgeRun, ops>>

\* ------------------------------------------------------------------ clock
TicksUsed(t) == t \div RetentionMs

Tick(d) ==
  /\ TicksUsed(now) < MaxTicks
  /\ now' = now + d
  /\ purgeRun' = [purgeRun EXCEPT !.ticked = (purgeRun.calls > 0)]
  /\ UNCHANGED <<ui, apiToken, lineToken, hits, hitOrigin, rules, aliases, aliasSeq,
                 reqs, last, ops>>

\* -------------------------------------------------------- management API
\* String primitives of the runtime, on TLA+ strings.
CharAt(s, i) == SubSeq(s, i, i)
FirstIndex(s, c) ==
  IF \E i \in 1..Len(s) : CharAt(s, i) = c
  THEN CHOOSE i \in 1..Len(s) :
         CharAt(s, i) = c /\ \A j \in 1..(i - 1) : CharAt(s, j) # c
  ELSE 0

\* String.prototype.split(sep) for a one-character separator.
RECURSIVE Split(_, _)
Split(s, sep) ==
  LET i == FirstIndex(s, sep)
  IN IF i = 0 THEN <<s>>
     ELSE <<SubSeq(s, 1, i - 1)>> \o Split(SubSeq(s, i + 1, Len(s)), sep)

\* String.prototype.trim(), for the space character.
RECURSIVE Trim(_)
Trim(s) ==
  IF Len(s) > 0 /\ CharAt(s, 1) = " " THEN Trim(SubSeq(s, 2, Len(s)))
  ELSE IF Len(s) > 0 /\ CharAt(s, Len(s)) = " " THEN Trim(SubSeq(s, 1, Len(s) - 1))
  ELSE s

\* Array.prototype.join(sep)
RECURSIVE Join(_, _)
Join(parts, sep) ==
  IF parts = << >> THEN ""
  ELSE IF Len(parts) = 1 THEN parts[1]
  ELSE parts[1] \o sep \o Join(Tail(parts), sep)

\* getCookie: the value of the first name=value part of the cookie header,
\* or null (the empty sequence).
getCookie(header, name) ==
  LET parts == Split(header, ";")
      kv(i) == Split(Trim(parts[i]), "=")
      found == {i \in 1..Len(parts) : kv(i)[1] = name}
  IN IF found = {} THEN << >>
     ELSE LET i == CHOOSE i \in found : \A j \in found : i <= j
          IN << Join(Tail(kv(i)), "=") >>

\* The cookie header a browser sends: api_token=<value>.
CookieOf(value) == "api_token=" \o value

Bearer(t) == <<"Bearer", t>>
Creds ==
  { [authorization |-> << >>, cookie |-> << >>],
    [authorization |-> Bearer(Secrets[1]), cookie |-> << >>],
    [authorization |-> Bearer(Secrets[2]), cookie |-> << >>],
    [authorization |-> << >>, cookie |-> << CookieOf(Secrets[1]) >>] }

\* (variant: without a secret nothing is authorized)
checkAuthClosed(cred, secret) ==
  /\ secret # NoToken
  /\ \/ cred.authorization = Bearer(secret)
     \/ getCookie(IF cred.cookie = << >> THEN "" ELSE cred.cookie[1], "api_token")
          = << secret >>
\* checkAuth: open without a secret, else the bearer header or the
\* api_token cookie must equal it.
checkAuth(cred, secret) ==
  \/ secret = NoToken
  \/ cred.authorization = Bearer(secret)
  \/ getCookie(IF cred.cookie = << >> THEN "" ELSE cred.cookie[1], "api_token")
       = << secret >>

\* A text argument of a JSON body: undefined (NullText), empty, or a text.
Falsy(x) == x = NullText \/ x = ""

UrlInputs == {NullText, "", "not a url", "target.example/hook", "https://", Url1}

\* new URL(x) succeeds: x starts with a scheme (a letter, then letters,
\* digits, "+", "-" or "."), a ":", and, the scheme being http or https, a
\* host after the slashes.
Chars(s) == {CharAt(s, i) : i \in 1..Len(s)}
Letters == Chars("abcdefghijklmnopqrstuvwxyzABCDEFGHIJKLMNOPQRSTUVWXYZ")
SchemeChars == Letters \cup Chars("0123456789+-.")
RECURSIVE StripSlashes(_)
StripSlashes(s) ==
  IF Len(s) > 0 /\ CharAt(s, 1) \in {"/", "\\"}
  THEN StripSlashes(SubSeq(s, 2, Len(s)))
  ELSE s
\* (variant: any text with a ":" parses)
ParseableUrlAnyColon(u) == FirstIndex(u, ":") > 0
ParseableUrl(u) ==
  LET i == FirstIndex(u, ":")
  IN /\ i > 1
     /\ CharAt(u, 1) \in Letters
     /\ \A k \in 2..(i - 1) : CharAt(u, k) \in SchemeChars
     /\ SubSeq(u, 1, i - 1) \in {"http", "https"} =>
          StripSlashes(SubSeq(u, i + 1, Len(u))) # ""

\* body.enabled ?? true: an omitted flag is the empty sequence.
OptBool == {<< >>, <<TRUE>>, <<FALSE>>}
\* (variant: an omitted flag is false)
OrFalse(o) == IF o = << >> THEN FALSE ELSE o[1]
OrTrue(o) == IF o = << >> THEN TRUE ELSE o[1]

\* Variant: a plain insert that ignores the stored row.
UpsertRuleAppend(rs, ep, url, enabled, persist, t) ==
  rs \cup {[endpoint |-> ep, forward_url |-> url, enabled |-> enabled,
            persist |-> persist, created_at |-> t, updated_at |-> t]}

\* insert into forward_rules ... on conflict (endpoint) do update set
\*   forward_url, enabled, persist, updated_at
UpsertRule(rs, ep, url, enabled, persist, t) ==
  IF \E r \in rs : r.endpoint = ep
  THEN {IF r.endpoint = ep
        THEN [r EXCEPT !.forward_url = url, !.enabled = enabled,
                       !.persist = persist, !.updated_at = t]
        ELSE r : r \in rs}
  ELSE rs \cup {[endpoint |-> ep, forward_url |-> url, enabled |-> enabled,
                 persist |-> persist, created_at |-> t, updated_at |-> t]}

Answer(op, status, deleted) == [op |-> op, status |-> status, deleted |-> deleted]

\* The body of PUT /api/forward-rules/:endpoint behind checkAuth: 400 on a
\* missing or unparseable forward_url, else the upsert.
PutRuleEffect(rs, ep, url, enabled, persist, t) ==
  IF Falsy(url) \/ ~ParseableUrl(url)
  THEN [ok |-> FALSE, rules |-> rs]
  ELSE [ok |-> TRUE,
        rules |-> UpsertRule(rs, ep, url, OrTrue(enabled), OrTrue(persist), t)]

\* delete from forward_rules where endpoint = ?
DeleteRuleEffect(rs, ep) == {r \in rs : r.endpoint # ep}

\* PUT /api/forward-rules/:endpoint
PutRule(ep, cred, url, enabled, persist) ==
  /\ ops < MaxOps
  /\ ops' = ops + 1
  /\ IF ~checkAuth(cred, apiToken)
     THEN /\ last' = Answer("putRule", 401, 0)
          /\ UNCHANGED rules
     ELSE LET e == PutRuleEffect(rules, ep, url, enabled, persist, now)
          IN /\ last' = Answer("putRule", IF e.ok THEN 200 ELSE 400, 0)
             /\ rules' = e.rules
  /\ UNCHANGED <<ui, apiToken, lineToken, now, hits, hitOrigin, aliases, aliasSeq,
                 reqs, purgeRun>>

\* DELETE /api/forward-rules/:endpoint
DeleteRule(ep, cred) ==
  /\ ops < MaxOps
  /\ ops' = ops + 1
  /\ IF ~checkAuth(cred, apiToken)
     THEN /\ last' = Answer("deleteRule", 401, 0)
          /\ UNCHANGED rules
     ELSE /\ last' = Answer("deleteRule", 200, 0)
          /\ rules' = DeleteRuleEffect(rules, ep)
  /\ UNCHANGED <<ui, apiToken, lineToken, now, hits, hitOrigin, aliases, aliasSeq,
                 reqs, purgeRun>>

\* POST /api/purge
Purge(cred) ==
  /\ ops < MaxOps
  /\ ops' = ops + 1
  /\ IF ~checkAuth(cred, apiToken)
     THEN /\ last' = Answer("purge", 401, 0)
          /\ UNCHANGED <<hits, purgeRun>>
     ELSE /\ last' = Answer("purge", 200, purgeOldHits(hits, now).deleted)
          /\ hits' = purgeOldHits(hits, now).hits
          /\ purgeRun' = [calls |-> Min(purgeRun.calls + 1, 2), ticked |-> FALSE]
  /\ UNCHANGED <<ui, apiToken, lineToken, now, hitOrigin, rules, aliases, aliasSeq,
                 reqs>>

\* ------------------------------------------------------ alias management
AliasValueInputs == {NullText, "", "C1", "U1"}
AliasLabelInputs == {NullText, "", "Ops"}

\* The insert ... onConflictDoUpdate of PUT /api/aliases behind its check
\* if (!body.value || !body.label) return 400.
PutAliasEffect(as, seq, value, label, t) ==
  IF Falsy(value) \/ Falsy(label)
  THEN [ok |-> FALSE, aliases |-> as, seq |-> seq]
  ELSE [ok |-> TRUE, aliases |-> UpsertAlias(as, seq, value, label, t),
        seq |-> UpsertAliasSeq(as, seq, value)]

\* MCP set_alias: the same insert with no check; an undefined value or
\* label violates NOT NULL, the statement throws and tools/call answers
\* isError.
SetAliasEffect(as, seq, value, label, t) ==
  IF value = NullText \/ label = NullText
  THEN [ok |-> FALSE, aliases |-> as, seq |-> seq]
  ELSE [ok |-> TRUE, aliases |-> UpsertAlias(as, seq, value, label, t),
        seq |-> UpsertAliasSeq(as, seq, value)]

\* delete from aliases where id = ?
DeleteAliasEffect(as, id) == {a \in as : a.id # id}

AliasAnswer(op, status, value, label) ==
  [op |-> op, status |-> status, deleted |-> 0, value |-> value, label |-> label]

\* PUT /api/aliases
PutAlias(cred, value, label) ==
  /\ ops < MaxOps
  /\ ops' = ops + 1
  /\ IF ~checkAuth(cred, apiToken)
     THEN /\ last' = AliasAnswer("putAlias", 401, value, label)
          /\ UNCHANGED <<aliases, aliasSeq>>
     ELSE LET e == PutAliasEffect(aliases, aliasSeq, value, label, now)
          IN /\ last' = AliasAnswer("putAlias", IF e.ok THEN 200 ELSE 400,
                                    value, label)
             /\ aliases' = e.aliases
             /\ aliasSeq' = e.seq
  /\ UNCHANGED <<ui, apiToken, lineToken, now, hits, hitOrigin, rules, reqs,
                 purgeRun>>

\* DELETE /api/aliases/:id
DeleteAlias(cred, id) ==
  /\ ops < MaxOps
  /\ ops' = ops + 1
  /\ IF ~checkAuth(cred, apiToken)
     THEN /\ last' = Answer("deleteAlias", 401, 0)
          /\ UNCHANGED aliases
     ELSE /\ last' = Answer("deleteAlias", 200, 0)
          /\ aliases' = DeleteAliasEffect(aliases, id)
  /\ UNCHANGED <<ui, apiToken, lineToken, now, hits, hitOrigin, rules, aliasSeq,
                 reqs, purgeRun>>

\* POST /api/aliases/resolve.  The LINE lookup reads and writes no store,
\* so it is taken in the same step as the upsert that follows it; named
\* tells whether the lookup yielded a name.
ResolveIdInputs == {"", "C1", "U1", "X1"}
ResolvedName(id, named) ==
  IF named /\ Len(id) > 0 /\ CharAt(id, 1) \in {"C", "U"}
  THEN LineName(id) ELSE NullText

ResolveAlias(cred, id, named) ==
  /\ ops < MaxOps
  /\ ops' = ops + 1
  /\ LET name == ResolvedName(id, named)
         status == IF ~checkAuth(cred, apiToken) THEN 401
                   ELSE IF ~lineToken THEN 500
                   ELSE IF Falsy(id) THEN 400
                   ELSE IF name = NullText THEN 404
                   ELSE 200
     IN /\ last' = AliasAnswer("resolve", status, id, name)
        /\ aliases' = IF status = 200
                      THEN UpsertAlias(aliases, aliasSeq, id, name, now)
                      ELSE aliases
        /\ aliasSeq' = IF status = 200
                       THEN UpsertAliasSeq(aliases, aliasSeq, id)
                       ELSE aliasSeq
  /\ UNCHANGED <<ui, apiToken, lineToken, now, hits, hitOrigin, rules, reqs,
                 purgeRun>>

\* -------------------------------------------------------------- hits query
\* The clock counts ms from 1970-01-01T00:00:00Z; received_at and the
\* bounds of the filter are toISOString() texts of one format, which
\* compare as the instants they denote.
DayMs        == 24 * 60 * 60 * 1000
Gmt7OffsetMs == 7 * 60 * 60 * 1000
PageSize     == 500

\* The calendar day at UTC+7 of an instant, as a day number, and
\* new Date(`${date}T00:00:00+07:00`) / new Date(`${date}T23:59:59.999+07:00`).
\* (variant: the calendar day taken at UTC)
LocalDayUtc(t) == t \div DayMs
LocalDay(t) == (t + Gmt7OffsetMs) \div DayMs
FromOf(day) == day * DayMs - Gmt7OffsetMs
ToOf(day)   == FromOf(day) + DayMs - 1

\* The date parameter: absent, "today", a calendar day, or a text that is
\* no date (new Date(...) is invalid and toISOString throws).
DateInputs ==
  { [kind |-> "none", day |-> 0], [kind |-> "today", day |-> 0],
    [kind |-> "day", day |-> 0], [kind |-> "day", day |-> 1],
    [kind |-> "bad", day |-> 0] }
QueryDay(date, t) ==
  IF date.kind \in {"none", "today"} THEN LocalDay(t) ELSE date.day

\* where received_at >= from and received_at < to [and endpoint = ?]
Matches(hs, from, to, endpoint) ==
  {i \in DOMAIN hs :
     /\ hs[i].received_at >= from
     /\ hs[i].received_at < to
     /\ (Falsy(endpoint) \/ hs[i].endpoint = endpoint)}

\* (variant: order by received_at, oldest first)
BeforeOldestFirst(hs, j, i, tie) ==
  \/ hs[j].received_at < hs[i].received_at
  \/ /\ hs[j].received_at = hs[i].received_at
     /\ IF tie = "asc" THEN j < i ELSE j > i

\* order by received_at desc; rows of one received_at come in an order the
\* statement does not fix: by id, ascending or descending.
Before(hs, j, i, tie) ==
  \/ hs[j].received_at > hs[i].received_at
  \/ /\ hs[j].received_at = hs[i].received_at
     /\ IF tie = "asc" THEN j < i ELSE j > i

\* ... limit 500: the selected rows by id, each with its position in the
\* answer and the columns the filter and the order read.
SelectHits(hs, from, to, endpoint, tie) ==
  LET M == Matches(hs, from, to, endpoint)
      Rank(i) == Cardinality({j \in M : Before(hs, j, i, tie)}) + 1
  IN [i \in {x \in M : Rank(x) <= PageSize} |->
        [pos |-> Rank(i), received_at |-> hs[i].received_at,
         endpoint |-> hs[i].endpoint]]

HitsAnswer(op, status, date, endpoint, at, rows) ==
  [op |-> op, status |-> status, deleted |-> 0, date |-> date,
   endpoint |-> endpoint, at |-> at, count |-> Cardinality(DOMAIN rows),
   rows |-> rows]

\* GET /api/hits
GetHits(cred, date, endpoint, tie) ==
  /\ ops < MaxOps
  /\ ops' = ops + 1
  /\ last' =
       IF ~checkAuth(cred, apiToken)
       THEN HitsAnswer("hits", 401, date, endpoint, now, << >>)
       ELSE IF date.kind = "bad"
       THEN HitsAnswer("hits", 500, date, endpoint, now, << >>)
       ELSE HitsAnswer("hits", 200, date, endpoint, now,
              SelectHits(hits, FromOf(QueryDay(date, now)),
                         ToOf(QueryDay(date, now)), endpoint, tie))
  /\ UNCHANGED <<ui, apiToken, lineToken, now, hits, hitOrigin, rules, aliases,
                 aliasSeq, reqs, purgeRun>>

\* ------------------------------------------------------- read-only endpoints
\* A handler that reads the stores and answers: nothing but the answer
\* changes.
ReadAnswer(op, status, result) ==
  [op |-> op, status |-> status, deleted |-> 0, result |-> result]
Reads(answer) ==
  /\ ops < MaxOps
  /\ ops' = ops + 1
  /\ last' = answer
  /\ UNCHANGED <<ui, apiToken, lineToken, now, hits, hitOrigin, rules, aliases,
                 aliasSeq, reqs, purgeRun>>

\* ------------------------------------------------- concurrent rule writes
\* PUT /api/forward-rules/:endpoint and set_forward_rule as they run beside
\* other requests: up to the upsert (credential, body, checks, the
\* timestamp `now`), the request waiting on its statement being a record
\* of reqs, and the statement itself, which the store runs as one step.
Url2 == "https://other.example/in"
PutReq(via, ep, url, enabled, persist, status, pc, t) ==
  [route |-> via, id |-> ep, pc |-> pc, status |-> status,
   forward_url |-> url, enabled |-> enabled, persist |-> persist, at |-> t]

PutRuleBegin(via, ep, cred, url, enabled, persist) ==
  /\ reqs' = Append(reqs,
       IF ~checkAuth(cred, apiToken)
       THEN PutReq(via, ep, url, enabled, persist, 401, "done", Null)
       ELSE IF (via = "rest" /\ Falsy(url)) \/ ~ParseableUrl(url)
       THEN PutReq(via, ep, url, enabled, persist,
                   IF via = "rest" THEN 400 ELSE 200, "done", Null)
       ELSE PutReq(via, ep, url, enabled, persist, 0, "upsert", now))
  /\ UNCHANGED <<ui, apiToken, lineToken, now, hits, hitOrigin, rules, aliases,
                 aliasSeq, last, purgeRun, ops>>

\* (variant: on conflict only forward_url and updated_at are set)
PutRuleUpsertKeepFlags(r) ==
  /\ reqs[r].pc = "upsert"
  /\ rules' =
       IF \E x \in rules : x.endpoint = reqs[r].id
       THEN {IF x.endpoint = reqs[r].id
             THEN [x EXCEPT !.forward_url = reqs[r].forward_url,
                            !.updated_at = reqs[r].at]
             ELSE x : x \in rules}
       ELSE UpsertRule(rules, reqs[r].id, reqs[r].forward_url,
                       OrTrue(reqs[r].enabled), OrTrue(reqs[r].persist), reqs[r].at)
  /\ reqs' = [reqs EXCEPT ![r] = [@ EXCEPT !.pc = "done", !.status = 200]]
  /\ UNCHANGED <<ui, apiToken, lineToken, now, hits, hitOrigin, aliases, aliasSeq,
                 last, purgeRun, ops>>
PutRuleUpsert(r) ==
  /\ reqs[r].pc = "upsert"
  /\ rules' = UpsertRule(rules, reqs[r].id, reqs[r].forward_url,
                         OrTrue(reqs[r].enabled), OrTrue(reqs[r].persist),
                         reqs[r].at)
  /\ reqs' = [reqs EXCEPT ![r] = [@ EXCEPT !.pc = "done", !.status = 200]]
  /\ UNCHANGED <<ui, apiToken, lineToken, now, hits, hitOrigin, aliases, aliasSeq,
                 last, purgeRun, ops>>

\* PUT /api/forward-rules/:endpoint and PUT /api/aliases with a body that
\* is no JSON: c.req.json() throws behind checkAuth and the framework
\* answers 500.
PutRuleBadBody(ep, cred) ==
  Reads(Answer("putRule", IF ~checkAuth(cred, apiToken) THEN 401 ELSE 500, 0))
PutAliasBadBody(cred) ==
  Reads(AliasAnswer("putAlias", IF ~checkAuth(cred, apiToken) THEN 401 ELSE 500,
                    NullText, NullText))

\* `${url.origin}/w/${id}/${token}`, without the origin; a token is a
\* sequence of characters in the model and a text in the URL.
TokenText(token) == Join(token, "")
TokenOf(text) == [i \in 1..Len(text) |-> CharAt(text, i)]
WebhookUrl(id, token) == "/w/" \o id \o "/" \o TokenText(token)

\* The router: the route and the path parameters of a POST to a path, for
\* paths of unreserved characters and "/" (which a client sends as they
\* are and the router does not decode); no route for any other shape.
RouteOf(path) ==
  LET seg == Split(path, "/")
      ok == Len(seg) \in {4, 5} /\ seg[1] = "" /\ seg[2] = "w"
              /\ \A i \in 3..Len(seg) : seg[i] # ""
  IN IF ~ok THEN [route |-> "none", id |-> "", token |-> << >>]
     ELSE [route |-> IF Len(seg) = 4 THEN "raw"
                     ELSE IF seg[5] = "github" THEN "github" ELSE "suffix",
           id |-> seg[3], token |-> TokenOf(seg[4])]

\* GET /api/generate-url
GenerateUrl(cred, id) ==
  Reads(IF ~checkAuth(cred, apiToken) THEN ReadAnswer("generate-url", 401, << >>)
        ELSE IF Falsy(id) THEN ReadAnswer("generate-url", 400, << >>)
        ELSE IF apiToken = NoToken THEN ReadAnswer("generate-url", 500, << >>)
        ELSE ReadAnswer("generate-url", 200,
                        << [id |-> id, token |-> generateWebhookToken(id, apiToken),
                            url |-> WebhookUrl(id, generateWebhookToken(id, apiToken))] >>))

\* getStats: the counters and lists of the dashboard that depend on the
\* stores.
getStats(hs, rs, as) ==
  [total_requests |-> Cardinality(DOMAIN hs),
   oldest_hit_at |-> IF DOMAIN hs = {} THEN << >>
                     ELSE << CHOOSE t \in {hs[i].received_at : i \in DOMAIN hs} :
                               \A i \in DOMAIN hs : t <= hs[i].received_at >>,
   forward_rules |-> rs, aliases |-> as]

\* GET /api/stats
GetStats(cred) ==
  Reads(IF ~checkAuth(cred, apiToken) THEN ReadAnswer("stats", 401, << >>)
        ELSE ReadAnswer("stats", 200, << getStats(hits, rules, aliases) >>))

\* GET /api/forward-rules
ListRules(cred) ==
  Reads(IF ~checkAuth(cred, apiToken) THEN ReadAnswer("rules", 401, << >>)
        ELSE ReadAnswer("rules", 200, << rules >>))

\* GET /api/aliases
ListAliases(cred) ==
  Reads(IF ~checkAuth(cred, apiToken) THEN ReadAnswer("aliases", 401, << >>)
        ELSE ReadAnswer("aliases", 200, << aliases >>))

\* The ids GET /api/aliases/unknown finds in a stored body: those of the
\* events of the body when JSON.parse accepts the stored text.
HitIds(h) ==
  IF h.body.form = "raw" /\ h.body.name = BodyLine.name
       /\ h.body.len = h.body_length
  THEN extractIds(BodyLine)
  ELSE {}

\* GET /api/aliases/unknown: the ids seen in the Hits of endpoint "line" of
\* the last seven days (at most 2000, more than a store here holds) that
\* no alias names.
UnknownAliases(cred) ==
  Reads(IF ~checkAuth(cred, apiToken) THEN ReadAnswer("unknown", 401, << >>)
        ELSE ReadAnswer("unknown", 200,
               << UNION {HitIds(hits[i]) :
                         i \in {j \in DOMAIN hits :
                                  /\ hits[j].endpoint = "line"
                                  /\ hits[j].received_at >= PurgeCutoff(now)}}
                  \ {a.value : a \in aliases} >>))

\* The instants the deliveries and queries are placed at: the start of the
\* behaviour, 23:59:59.500 and 23:59:59.999 of that day at UTC+7, and
\* 00:00:00.000 and 00:00:00.500 of the next day.
QueryInstants ==
  {ToOf(0) - 499, ToOf(0), FromOf(1), FromOf(1) + 500}

ClockTo(t) ==
  /\ t > now
  /\ now' = t
  /\ purgeRun' = [purgeRun EXCEPT !.ticked = (purgeRun.calls > 0)]
  /\ UNCHANGED <<ui, apiToken, lineToken, hits, hitOrigin, rules, aliases, aliasSeq,
                 reqs, last, ops>>

\* ------------------------------------------------------------- MCP tools
\* POST /mcp, tools/call: checkAuth, then callTool; a throw inside the
\* tool is answered as isError.
McpAnswer(tool, status, isError) ==
  [op |-> tool, status |-> status, deleted |-> 0, isError |-> isError]

\* set_forward_rule: new URL(args.forward_url) or isError, then the upsert.
SetRuleEffect(rs, ep, url, enabled, persist, t) ==
  IF ~ParseableUrl(url)
  THEN [ok |-> FALSE, rules |-> rs]
  ELSE [ok |-> TRUE,
        rules |-> UpsertRule(rs, ep, url, OrTrue(enabled), OrTrue(persist), t)]

\* delete_forward_rule
McpDeleteRuleEffect(rs, ep) == {r \in rs : r.endpoint # ep}

McpSetRule(cred, ep, url, enabled, persist) ==
  /\ ops < MaxOps
  /\ ops' = ops + 1
  /\ IF ~checkAuth(cred, apiToken)
     THEN /\ last' = McpAnswer("set_forward_rule", 401, FALSE)
          /\ UNCHANGED rules
     ELSE LET e == SetRuleEffect(rules, ep, url, enabled, persist, now)
          IN /\ last' = McpAnswer("set_forward_rule", 200, ~e.ok)
             /\ rules' = e.rules
  /\ UNCHANGED <<ui, apiToken, lineToken, now, hits, hitOrigin, aliases, aliasSeq,
                 reqs, purgeRun>>

McpDeleteRule(cred, ep) ==
  /\ ops < MaxOps
  /\ ops' = ops + 1
  /\ IF ~checkAuth(cred, apiToken)
     THEN /\ last' = McpAnswer("delete_forward_rule", 401, FALSE)
          /\ UNCHANGED rules
     ELSE /\ last' = McpAnswer("delete_forward_rule", 200, FALSE)
          /\ rules' = McpDeleteRuleEffect(rules, ep)
  /\ UNCHANGED <<ui, apiToken, lineToken, now, hits, hitOrigin, aliases, aliasSeq,
                 reqs, purgeRun>>

\* The groupId the group filter of webhook_hits reads from a stored body:
\* JSON.parse(h.body).events[0].source.groupId, null when the body is no
\* JSON (a digest, a placeholder, a truncated or a non-JSON body).
HitGroupId(h) ==
  IF h.body.form = "raw" /\ h.body.name = BodyLine.name
       /\ h.body.len = h.body_length /\ BodyLine.events # << >>
  THEN BodyLine.events[1].groupId
  ELSE NullText

\* webhook_hits: the query of GET /api/hits, then the group filter on the
\* selected rows.
McpWebhookHits(cred, date, endpoint, group, tie) ==
  /\ ops < MaxOps
  /\ ops' = ops + 1
  /\ last' =
       IF ~checkAuth(cred, apiToken)
       THEN HitsAnswer("webhook_hits", 401, date, endpoint, now, << >>)
       ELSE IF date.kind = "bad"
       THEN [HitsAnswer("webhook_hits", 200, date, endpoint, now, << >>)
               EXCEPT !.status = 500]
       ELSE LET sel == SelectHits(hits, FromOf(QueryDay(date, now)),
                                  ToOf(QueryDay(date, now)), endpoint, tie)
                kept == IF Falsy(group) THEN DOMAIN sel
                        ELSE {i \in DOMAIN sel : HitGroupId(hits[i]) = group}
            IN HitsAnswer("webhook_hits", 200, date, endpoint, now,
                          [i \in kept |-> sel[i]])
  /\ UNCHANGED <<ui, apiToken, lineToken, now, hits, hitOrigin, rules, aliases,
                 aliasSeq, reqs, purgeRun>>

\* purge_old_hits
McpPurge(cred) ==
  /\ ops < MaxOps
  /\ ops' = ops + 1
  /\ IF ~checkAuth(cred, apiToken)
     THEN /\ last' = McpAnswer("purge_old_hits", 401, FALSE)
          /\ UNCHANGED <<hits, purgeRun>>
     ELSE /\ last' = [McpAnswer("purge_old_hits", 200, FALSE)
                        EXCEPT !.deleted = purgeOldHits(hits, now).deleted]
          /\ hits' = purgeOldHits(hits, now).hits
          /\ purgeRun' = [calls |-> Min(purgeRun.calls + 1, 2), ticked |-> FALSE]
  /\ UNCHANGED <<ui, apiToken, lineToken, now, hitOrigin, rules, aliases, aliasSeq,
                 reqs>>

\* generate_webhook_url
McpGenerateUrl(cred, id) ==
  Reads(IF ~checkAuth(cred, apiToken)
        THEN [McpAnswer("generate_webhook_url", 401, FALSE) EXCEPT !.deleted = 0]
        ELSE [op |-> "generate_webhook_url", status |-> 200, deleted |-> 0,
              isError |-> FALSE,
              result |-> << [id |-> id, token |-> generateWebhookToken(id, apiToken),
                             url |-> WebhookUrl(id, generateWebhookToken(id, apiToken))] >>])

\* A POST of a body to a path of the worker.
PostTo(path, body) ==
  /\ RouteOf(path).route # "none"
  /\ Receive(RouteOf(path).route, RouteOf(path).id, RouteOf(path).token, body)

McpSetAlias(cred, value, label) ==
  /\ ops < MaxOps
  /\ ops' = ops + 1
  /\ IF ~checkAuth(cred, apiToken)
     THEN /\ last' = McpAnswer("set_alias", 401, FALSE)
          /\ UNCHANGED <<aliases, aliasSeq>>
     ELSE LET e == SetAliasEffect(aliases, aliasSeq, value, label, now)
          IN /\ last' = McpAnswer("set_alias", 200, ~e.ok)
             /\ aliases' = e.aliases
             /\ aliasSeq' = e.seq
  /\ UNCHANGED <<ui, apiToken, lineToken, now, hits, hitOrigin, rules, reqs,
                 purgeRun>>

McpDeleteAlias(cred, id) ==
  /\ ops < MaxOps
  /\ ops' = ops + 1
  /\ IF ~checkAuth(cred, apiToken)
     THEN /\ last' = McpAnswer("delete_alias", 401, FALSE)
          /\ UNCHANGED aliases
     ELSE /\ last' = McpAnswer("delete_alias", 200, FALSE)
          /\ aliases' = DeleteAliasEffect(aliases, id)
  /\ UNCHANGED <<ui, apiToken, lineToken, now, hits, hitOrigin, rules, aliasSeq,
                 reqs, purgeRun>>

\* ------------------------------------------------------------ next-state
OkCred == [authorization |-> Bearer(Secrets[1]), cookie |-> << >>]

\* The steps of a receive handler and of its forward executor.
Pipeline ==
  \/ \E r \in 1..Len(reqs) : LookupRule(r)
  \/ \E r \in 1..Len(reqs) : RecordHit(r)
  \/ \E r \in 1..Len(reqs) :
       \E o \in FetchOutcomes(0) \cup FetchOutcomes(ForwardTimeoutMs) : ForwardSettle(r, o)
  \/ \E r \in 1..Len(reqs) : ForwardWrite(r)

\* The steps of autoAlias, which only the raw route starts.
AliasTask ==
  \/ \E r \in 1..Len(reqs) : AliasSelect(r)
  \/ \E r \in 1..Len(reqs) :
       \E named \in SUBSET extractIds(reqs[r].body) :
         \E order \in Perms(named) : AliasFetch(r, named, order)
  \/ \E r \in 1..Len(reqs) : AliasInsert(r)

\* Bodies of PUT /api/forward-rules/:endpoint: no url, an unparseable url,
\* a url alone, and a url with both flags.
RuleBodies ==
  { [forward_url |-> u, enabled |-> << >>, persist |-> << >>] : u \in UrlInputs }
  \cup { [forward_url |-> Url1, enabled |-> <<e>>, persist |-> <<p>>] :
           e \in BOOLEAN, p \in BOOLEAN }

\* Spec: one request of any kind, with any path token, against rule
\* management with any credential and any rule body.
Next ==
  \/ /\ Len(reqs) < MaxReqs
     /\ \E q \in Inbound :
          \E t \in PathTokens(q.id) : Receive(q.route, q.id, t, q.body)
  \/ Pipeline
  \/ AliasTask
  \/ \E i \in 1..Len(Endpoints), c \in Creds, b \in RuleBodies :
       PutRule(Endpoints[i], c, b.forward_url, b.enabled, b.persist)
  \/ \E i \in 1..Len(Endpoints), c \in Creds : DeleteRule(Endpoints[i], c)

Spec == Init /\ [][Next]_vars

\* SpecToken: the token codec on every endpoint id and secret, probed with
\* the issued token and with every token one character away from it.
TokenChars == {B64[i] : i \in 1..Len(B64)} \cup {"-", "_", "="}
TokenProbes(t) ==
  {t} \cup {[t EXCEPT ![p] = c] : p \in 1..Len(t), c \in TokenChars}

InitToken == \E k \in 1..Len(Secrets) : InitWith(Secrets[k])

NextToken ==
  /\ Len(reqs) < MaxReqs
  /\ \E i \in 1..Len(Endpoints), k \in 1..Len(Secrets) :
       \E t \in TokenProbes(generateWebhookToken(Endpoints[i], Secrets[k])) :
         Receive("raw", Endpoints[i], t, BodyText)

SpecToken == InitToken /\ [][NextToken]_vars

\* SpecConc: concurrent signed deliveries to one endpoint, with the rule of
\* that endpoint changing, the clock advancing and purges running between
\* any two steps.
ConcInbound == {q \in Inbound : q.route = "suffix"}

NextConc ==
  \/ /\ Len(reqs) < MaxConc
     /\ \E q \in ConcInbound :
          Receive(q.route, q.id, generateWebhookToken(q.id, Secrets[1]), q.body)
  \/ Pipeline
  \/ \E d \in TickSteps : Tick(d)
  \/ \E q \in ConcInbound, e \in BOOLEAN, p \in BOOLEAN :
       PutRule(q.id, OkCred, Url1, <<e>>, <<p>>)
  \/ \E q \in ConcInbound : DeleteRule(q.id, OkCred)
  \/ Purge(OkCred)

SpecConc == Init /\ [][NextConc]_vars

\* SpecAlias: every writer of the alias store (REST, MCP, resolve and the
\* autoAlias task of a LINE delivery) with the clock advancing.
NextAlias ==
  \/ /\ Len(reqs) < MaxReqs
     /\ Receive("raw", "line", generateWebhookToken("line", Secrets[1]), BodyLine)
  \/ \E r \in 1..Len(reqs) : LookupRule(r)
  \/ \E r \in 1..Len(reqs) : RecordHit(r)
  \/ AliasTask
  \/ \E d \in TickSteps : Tick(d)
  \/ \E v \in AliasValueInputs, l \in AliasLabelInputs : PutAlias(OkCred, v, l)
  \/ \E id \in 1..(aliasSeq + 1) : DeleteAlias(OkCred, id)
  \/ \E id \in ResolveIdInputs, named \in BOOLEAN : ResolveAlias(OkCred, id, named)
  \/ \E v \in AliasValueInputs, l \in AliasLabelInputs : McpSetAlias(OkCred, v, l)
  \/ \E id \in 1..(aliasSeq + 1) : McpDeleteAlias(OkCred, id)

SpecAlias == Init /\ [][NextAlias]_vars

\* SpecRules: rule upserts and deletes through the REST API and the MCP
\* tools, in any order, with the clock advancing.
McpRuleBodies ==
  RuleBodies \cup {[forward_url |-> NullText, enabled |-> << >>, persist |-> << >>]}

NextRules ==
  \/ \E i \in 1..Len(Endpoints), b \in McpRuleBodies :
       PutRule(Endpoints[i], OkCred, b.forward_url, b.enabled, b.persist)
  \/ \E i \in 1..Len(Endpoints) : DeleteRule(Endpoints[i], OkCred)
  \/ \E i \in 1..Len(Endpoints), b \in McpRuleBodies :
       McpSetRule(OkCred, Endpoints[i], b.forward_url, b.enabled, b.persist)
  \/ \E i \in 1..Len(Endpoints) : McpDeleteRule(OkCred, Endpoints[i])
  \/ \E d \in TickSteps : Tick(d)

SpecRules == Init /\ [][NextRules]_vars

\* ================================================================ claims
HitsOf(r) == {h \in 1..Len(hitOrigin) : hitOrigin[h] = r}

OneCharApart(t, u) ==
  /\ Len(t) = Len(u)
  /\ Cardinality({p \in 1..Len(t) : t[p] # u[p]}) = 1

\* C1: for every endpoint id and secret the issued token verifies, and every
\* token that differs from the issued one in a single character does not;
\* the receive route answers accordingly.
C1_TokenRoundTrip ==
  \A r \in 1..Len(reqs) :
    LET q == reqs[r]
        issued == generateWebhookToken(q.id, apiToken)
    IN /\ q.token = issued =>
            verifyWebhookToken(q.id, q.token, apiToken) /\ q.status # 401
       /\ OneCharApart(q.token, issued) =>
            ~verifyWebhookToken(q.id, q.token, apiToken) /\ q.status = 401

C1_Witness ==
  \E r \in 1..Len(reqs) :
    /\ OneCharApart(reqs[r].token, generateWebhookToken(reqs[r].id, apiToken))
    /\ reqs[r].token[1] = "+"
    /\ reqs[r].status = 401

\* C2: with a secret configured, a request whose path token is not the
\* token of its path id is answered 401 with the body unread, no hit
\* inserted, no forward and no alias task scheduled, and the step that
\* rejects it leaves the hit, rule and alias stores unchanged.
BadToken(q) ==
  apiToken # NoToken /\ q.token # generateWebhookToken(q.id, apiToken)

C2_Rejected ==
  \A r \in 1..Len(reqs) :
    BadToken(reqs[r]) =>
      /\ reqs[r].status = 401 /\ reqs[r].pc = "done"
      /\ ~reqs[r].bodyRead
      /\ reqs[r].hitId = Null /\ reqs[r].inserted = 0 /\ HitsOf(r) = {}
      /\ reqs[r].fwd.pc = "none" /\ reqs[r].posts = 0
      /\ reqs[r].alias.pc = "none"

C2_RejectStep ==
  (Len(reqs') = Len(reqs) + 1 /\ BadToken(reqs'[Len(reqs')]))
    => UNCHANGED <<hits, hitOrigin, rules, aliases, aliasSeq>>

C2_AuthFailsClosed == []C2_Rejected /\ [][C2_RejectStep]_vars

C2_Witness ==
  \E r \in 1..Len(reqs) :
    /\ BadToken(reqs[r])
    /\ reqs[r].status = 401
    /\ \E x \in rules : x.endpoint = reqs[r].id /\ x.enabled /\ x.persist

\* C3: a request whose rule, as read at the rule lookup, has persist = false
\* gets hitId = null and inserts no hit, with enabled true or false, on
\* every route; the lookup step leaves the hit store unchanged.
PersistOff(q) == q.rule # << >> /\ q.rule[1].persist = FALSE

C3_NoHit ==
  \A r \in 1..Len(reqs) :
    PersistOff(reqs[r]) =>
      /\ reqs[r].pc = "done" /\ reqs[r].status = 200
      /\ reqs[r].hitId = Null /\ reqs[r].inserted = 0 /\ HitsOf(r) = {}

C3_LookupStep ==
  \A r \in 1..Len(reqs) :
    (reqs[r].pc = "lookup" /\ reqs'[r].pc # "lookup" /\ PersistOff(reqs'[r]))
      => hits' = hits /\ hitOrigin' = hitOrigin

C3_PersistFalseNeverStored == []C3_NoHit /\ [][C3_LookupStep]_vars

C3_Witness ==
  \E r \in 1..Len(reqs) :
    /\ PersistOff(reqs[r]) /\ reqs[r].rule[1].enabled
    /\ reqs[r].status = 200 /\ reqs[r].fwd.pc # "none"
    /\ hits = << >>

\* C4: when no rule exists for the endpoint at the rule lookup, the request
\* is handled as persist = true, enabled = false: exactly one hit is
\* inserted for it and no forward is scheduled.
C4_Default ==
  \A r \in 1..Len(reqs) :
    (reqs[r].status = 200 /\ reqs[r].rule = << >>) =>
      /\ reqs[r].inserted = 1 /\ reqs[r].hitId # Null
      /\ Cardinality(HitsOf(r)) = 1 /\ reqs[r].hitId \in HitsOf(r)
      /\ reqs[r].fwd.pc = "none" /\ reqs[r].posts = 0

C4_LookupStep ==
  \A r \in 1..Len(reqs) :
    (reqs[r].pc = "lookup" /\ reqs'[r].pc # "lookup"
       /\ ~(\E x \in rules : x.endpoint = reqs[r].id))
      => reqs'[r].rule = << >> /\ reqs'[r].pc = "insert"

C4_NoRuleDefault == []C4_Default /\ [][C4_LookupStep]_vars

C4_Witness ==
  \E r \in 1..Len(reqs) :
    /\ reqs[r].status = 200 /\ reqs[r].rule = << >>
    /\ reqs[r].hitId \in DOMAIN hits
    /\ last = Answer("deleteRule", 200, 0) /\ ops = 2 /\ rules = {}

\* C5: a forward is scheduled for an accepted request exactly when the rule
\* it read has enabled = true and a non-empty forward_url; a request issues
\* at most one outbound POST, and none after its forward has started,
\* whatever the outcome.
RuleForwards(q) ==
  q.rule # << >> /\ q.rule[1].enabled = TRUE /\ q.rule[1].forward_url # ""

C5_Scheduled ==
  \A r \in 1..Len(reqs) :
    /\ reqs[r].posts <= 1
    /\ reqs[r].status = 200 =>
         /\ (reqs[r].fwd.pc # "none") <=> RuleForwards(reqs[r])
         /\ (reqs[r].posts = 1) <=> RuleForwards(reqs[r])
    /\ reqs[r].status # 200 => reqs[r].fwd.pc = "none" /\ reqs[r].posts = 0

C5_NoRetry ==
  \A r \in 1..Len(reqs) :
    reqs[r].fwd.pc # "none" => reqs'[r].posts = reqs[r].posts

C5_ForwardOnce == []C5_Scheduled /\ [][C5_NoRetry]_vars

C5_Witness ==
  \E r \in 1..Len(reqs) :
    /\ reqs[r].fwd.pc = "done" /\ reqs[r].fwd.kind = "timeout"
    /\ reqs[r].posts = 1

\* C6: the 200 of an accepted request is sent in the step that schedules
\* the forward, never waits for it, and is not altered by anything the
\* forward does afterwards (success, failure, or never finishing); when it
\* is sent, the forward_status of the request's hit is still null.
Ack(q) == <<q.status, q.id, q.received_at, q.response_ms>>

C6_AckedWhenScheduled ==
  \A r \in 1..Len(reqs) :
    reqs[r].fwd.pc # "none" => reqs[r].status = 200 /\ reqs[r].pc = "done"

C6_AckStep ==
  \A r \in 1..Len(reqs) :
    /\ reqs[r].status = 200 => Ack(reqs'[r]) = Ack(reqs[r])
    /\ (reqs[r].status # 200 /\ reqs'[r].status = 200) =>
         /\ reqs'[r].fwd.pc \in {"none", "inflight"}
         /\ reqs'[r].hitId # Null =>
              hits'[reqs'[r].hitId].forward_status = Null

C6_AckIndependentOfForward == []C6_AckedWhenScheduled /\ [][C6_AckStep]_vars

C6_Witness ==
  \E r \in 1..Len(reqs) :
    /\ reqs[r].status = 200 /\ reqs[r].fwd.pc = "inflight"
    /\ reqs[r].hitId \in DOMAIN hits
    /\ hits[reqs[r].hitId].forward_status = Null

\* C7: once the forward of a request has completed and its hit is in the
\* store, the hit's forward_status is the target's status (so within
\* [200,299] when the target answered successfully) with a null
\* forward_error, or it is 0 with a non-null forward_error when the fetch
\* threw or hit the 10 s timeout.
C7_ForwardOutcomeRecorded ==
  \A r \in 1..Len(reqs) :
    (reqs[r].fwd.pc = "done" /\ reqs[r].hitId \in DOMAIN hits) =>
      LET h == hits[reqs[r].hitId]
          f == reqs[r].fwd
      IN /\ RuleForwards(reqs[r])
         /\ h.forward_ms # Null
         /\ f.kind = "response" =>
              /\ h.forward_status = f.res /\ h.forward_error = NullText
              /\ f.res \in 200..299 => h.forward_status \in 200..299
         /\ f.kind \in {"throw", "timeout"} =>
              h.forward_status = 0 /\ h.forward_error # NullText

C7_Witness ==
  \E r \in 1..Len(reqs) :
    /\ reqs[r].fwd.pc = "done" /\ reqs[r].hitId \in DOMAIN hits
    /\ reqs[r].fwd.kind = "throw" /\ reqs[r].fwd.err = NullText
    /\ hits[reqs[r].hitId].forward_status = 0

\* C8: a forward that runs without a hit id (persist disabled) still issues
\* its one POST, and the step in which it finishes inserts no hit and
\* changes no hit.
C8_PostAttempted ==
  \A r \in 1..Len(reqs) :
    (reqs[r].fwd.pc # "none" /\ reqs[r].hitId = Null) =>
      /\ reqs[r].posts = 1
      /\ reqs[r].fwd.pc \in {"inflight", "done"}
      /\ HitsOf(r) = {}

C8_DiscardStep ==
  \A r \in 1..Len(reqs) :
    (reqs[r].hitId = Null /\ reqs[r].fwd.pc = "inflight"
       /\ reqs'[r].fwd # reqs[r].fwd)
      => hits' = hits /\ hitOrigin' = hitOrigin /\ reqs'[r].fwd.pc = "done"

C8_NullHitOutcomeDiscarded == []C8_PostAttempted /\ [][C8_DiscardStep]_vars

C8_Witness ==
  \E r \in 1..Len(reqs) :
    /\ reqs[r].hitId = Null /\ reqs[r].fwd.pc = "done" /\ reqs[r].posts = 1
    /\ hits # << >>

\* C9: a stored hit keeps its id, endpoint, suffix, received_at,
\* response_ms, body_length and body for as long as it is stored; its
\* forward_* fields change only in the write-back of the request that
\* inserted it, after that request's fetch has settled, and only from null;
\* a new hit gets an id never used before, with null forward_* fields.
Fixed(h) ==
  <<h.endpoint, h.suffix, h.received_at, h.response_ms, h.body_length, h.body>>
Outcome(h) == <<h.forward_status, h.forward_ms, h.forward_error>>
NoOutcome == <<Null, Null, NullText>>

C9_WrittenAfterForward ==
  \A i \in DOMAIN hits :
    Outcome(hits[i]) # NoOutcome =>
      reqs[hitOrigin[i]].hitId = i /\ reqs[hitOrigin[i]].fwd.pc = "done"

C9_HitStep ==
  /\ \A i \in (DOMAIN hits) \cap (DOMAIN hits') :
       /\ Fixed(hits'[i]) = Fixed(hits[i])
       /\ Outcome(hits'[i]) # Outcome(hits[i]) =>
            LET r == hitOrigin[i]
            IN /\ Outcome(hits[i]) = NoOutcome
               /\ reqs[r].hitId = i
               /\ reqs[r].fwd.pc = "writing" /\ reqs'[r].fwd.pc = "done"
               /\ Outcome(hits'[i]) =
                    <<reqs[r].fwd.status, reqs[r].fwd.ms, reqs[r].fwd.error>>
  /\ \A i \in (DOMAIN hits') \ (DOMAIN hits) :
       /\ i = Len(hitOrigin) + 1 /\ Len(hitOrigin') = i
       /\ Outcome(hits'[i]) = NoOutcome

C9_HitImmutable == []C9_WrittenAfterForward /\ [][C9_HitStep]_vars

C9_Witness ==
  \E i, j \in DOMAIN hits :
    /\ i # j
    /\ hits[i].forward_status = 0 /\ hits[i].forward_error # NullText
    /\ Outcome(hits[j]) = NoOutcome
    /\ reqs[hitOrigin[j]].fwd.pc = "writing"

\* C10: an authorised purge deletes exactly the hits whose received_at is
\* more than 7 days before the clock, leaves the others as they were and
\* answers the number deleted; a second purge with no insert and no clock
\* advance in between deletes 0.
IsPurge == ops' = ops + 1 /\ last'.op = "purge" /\ last'.status = 200

PurgeExact ==
  /\ DOMAIN hits' =
       {i \in DOMAIN hits : ~(hits[i].received_at + RetentionMs < now)}
  /\ \A i \in DOMAIN hits' : hits'[i] = hits[i]
  /\ last'.deleted = Cardinality((DOMAIN hits) \ (DOMAIN hits'))

C10_PurgeExactAndIdempotent ==
  [][IsPurge =>
       /\ PurgeExact
       /\ (purgeRun.calls >= 1 /\ ~purgeRun.ticked) => last'.deleted = 0]_vars

\* C10 as stated: the second purge deletes 0 whenever no insert came in
\* between, whatever the clock did.
C10_AsStated ==
  [][IsPurge =>
       /\ PurgeExact
       /\ purgeRun.calls >= 1 => last'.deleted = 0]_vars

C10_Witness ==
  /\ purgeRun.calls = 2 /\ ~purgeRun.ticked
  /\ last = Answer("purge", 200, 0)
  /\ Len(hitOrigin) > Cardinality(DOMAIN hits)
  /\ hits # << >>

\* The deliveries the query specification places: a LINE event and a long
\* text, each on its suffix route.
QueryInbound ==
  { [route |-> "suffix", id |-> "line", body |-> BodyLine],
    [route |-> "suffix", id |-> "gh", body |-> BodyText] }
EndpointInputs == {NullText, "line"}
GroupInputs == {NullText, "C1"}
TieInputs == {"asc", "desc"}

NextQuery ==
  \/ /\ Len(reqs) < MaxConc
     /\ \E q \in QueryInbound :
          Receive(q.route, q.id, generateWebhookToken(q.id, Secrets[1]), q.body)
  \/ \E r \in 1..Len(reqs) : LookupRule(r)
  \/ \E r \in 1..Len(reqs) : RecordHit(r)
  \/ \E t \in QueryInstants : ClockTo(t)
  \/ \E d \in DateInputs, e \in EndpointInputs, tie \in TieInputs :
       GetHits(OkCred, d, e, tie)
  \/ \E d \in DateInputs, e \in EndpointInputs, g \in GroupInputs,
        tie \in TieInputs :
       McpWebhookHits(OkCred, d, e, g, tie)

SpecQuery == Init /\ [][NextQuery]_vars

\* A store around the page size of the query.  The r-th delivery of a run of
\* deliveries to suffix routes with no rule configured: every 250th goes to
\* "gh", the others to "line", two per millisecond; DeliveredAt is the
\* request after Receive, LookupRule and RecordHit have run for it.
PageInbound(r) ==
  IF r % 250 = 0
  THEN [route |-> "suffix", id |-> "gh", body |-> BodyText]
  ELSE [route |-> "suffix", id |-> "line", body |-> BodyLine]
PageInstant(r) == r \div 2
DeliveredAt(q, t, hitId) ==
  Respond([NewReq(q.route, q.id, generateWebhookToken(q.id, Secrets[1]), q.body)
             EXCEPT !.pc = "insert", !.status = 0, !.bodyRead = TRUE,
                    !.received_at = t, !.response_ms = 0,
                    !.rule = getForwardRule({}, q.id), !.inserted = 1],
          hitId)
PageFills == (PageSize - 1)..(PageSize + 2 + MaxExtra)

InitPage ==
  /\ apiToken = Secrets[1]
  /\ lineToken = TRUE
  /\ rules = {}
  /\ aliases = {}
  /\ aliasSeq = 0
  /\ last = [op |-> "none", status |-> 0, deleted |-> 0]
  /\ purgeRun = [calls |-> 0, ticked |-> FALSE]
  /\ ops = 0
  /\ ui = NoPage
  /\ \E n \in PageFills :
       /\ now = PageInstant(n)
       /\ reqs = [r \in 1..n |-> DeliveredAt(PageInbound(r), PageInstant(r), r)]
       /\ hitOrigin = [i \in 1..n |-> i]
       /\ hits = [i \in 1..n |-> NewHit(reqs[i])]

PageDates == {d \in DateInputs : d.kind \in {"none", "day"}}
PageEndpoints == {NullText, "line", "gh"}

NextPage ==
  \/ \E d \in PageDates, e \in PageEndpoints, tie \in TieInputs :
       ops = 0 /\ GetHits(OkCred, d, e, tie)
  \/ \E d \in PageDates, e \in PageEndpoints, g \in GroupInputs,
        tie \in TieInputs :
       ops = 0 /\ McpWebhookHits(OkCred, d, e, g, tie)

SpecPage == InitPage /\ [][NextPage]_vars

\* The credentials a management request may carry when the secret is
\* `secret`: none, the bearer header with the secret or with another text,
\* and cookie headers: the api_token cookie alone, after another cookie,
\* after a stale api_token cookie, and a stale api_token cookie alone.
AuthCreds(secret) ==
  { [authorization |-> << >>, cookie |-> << >>],
    [authorization |-> Bearer(secret), cookie |-> << >>],
    [authorization |-> Bearer(Secrets[2]), cookie |-> << >>],
    [authorization |-> << >>, cookie |-> << CookieOf(secret) >>],
    [authorization |-> << >>,
     cookie |-> << "theme=dark; " \o CookieOf(secret) >>],
    [authorization |-> << >>,
     cookie |-> << CookieOf(Secrets[2]) \o "; " \o CookieOf(secret) >>],
    [authorization |-> << >>, cookie |-> << CookieOf(Secrets[2]) >>] }

\* One request to each management endpoint with credential c.
MgmtStep(c) ==
  \/ GenerateUrl(c, "gh")
  \/ GetHits(c, [kind |-> "none", day |-> 0], NullText, "asc")
  \/ GetStats(c)
  \/ Purge(c)
  \/ ListRules(c)
  \/ PutRule("gh", c, Url1, <<TRUE>>, <<TRUE>>)
  \/ DeleteRule("gh", c)
  \/ ListAliases(c)
  \/ PutAlias(c, "C1", "Ops")
  \/ DeleteAlias(c, 1)
  \/ UnknownAliases(c)
  \/ ResolveAlias(c, "U1", TRUE)
  \/ McpWebhookHits(c, [kind |-> "none", day |-> 0], NullText, NullText, "asc")
  \/ McpSetRule(c, "gh", Url1, <<TRUE>>, <<TRUE>>)
  \/ McpDeleteRule(c, "gh")
  \/ McpSetAlias(c, "U1", "Ops")
  \/ McpDeleteAlias(c, 1)
  \/ McpPurge(c)

InitAuth == \E s \in {Secrets[1], SecretSemi} : InitWith(s)

NextAuth ==
  \/ /\ Len(reqs) < MaxReqs
     /\ Receive("suffix", "line", generateWebhookToken("line", apiToken), BodyLine)
  \/ \E r \in 1..Len(reqs) : LookupRule(r)
  \/ \E r \in 1..Len(reqs) : RecordHit(r)
  \/ \E d \in TickSteps : Tick(d)
  \/ \E c \in AuthCreds(apiToken) : MgmtStep(c)

SpecAuth == InitAuth /\ [][NextAuth]_vars

\* Deliveries of every kind of body on the three routes of an endpoint
\* without a rule.
BodyInbound ==
  { [route |-> "raw", id |-> "gh", body |-> BodyText],
    [route |-> "raw", id |-> "gh", body |-> BodyPull],
    [route |-> "suffix", id |-> "gh", body |-> BodyText],
    [route |-> "github", id |-> "gh", body |-> BodyText],
    [route |-> "github", id |-> "gh", body |-> BodyPull],
    [route |-> "github", id |-> "gh", body |-> BodyComment],
    [route |-> "github", id |-> "gh", body |-> BodyPush],
    [route |-> "github", id |-> "gh", body |-> BodyOther] }

NextBody ==
  \/ /\ Len(reqs) < MaxConc
     /\ \E q \in BodyInbound :
          Receive(q.route, q.id, generateWebhookToken(q.id, Secrets[1]), q.body)
  \/ \E r \in 1..Len(reqs) : LookupRule(r)
  \/ \E r \in 1..Len(reqs) : RecordHit(r)

SpecBody == Init /\ [][NextBody]_vars

\* The operator asks for the URL of an endpoint and a sender posts to the
\* URL of the last answer.
UrlIdInputs == {NullText, "", "gh", "ci", IdSlash}
IssuedUrl ==
  IF last.op \in {"generate-url", "generate_webhook_url"} /\ last.status = 200
  THEN << last.result[1] >> ELSE << >>
NextUrl ==
  \/ \E id \in UrlIdInputs : GenerateUrl(OkCred, id)
  \/ \E id \in UrlIdInputs \ {NullText, ""} : McpGenerateUrl(OkCred, id)
  \/ /\ Len(reqs) < MaxConc
     /\ IssuedUrl # << >>
     /\ \E b \in {BodyText, BodyLine} : PostTo(IssuedUrl[1].url, b)
  \/ \E r \in 1..Len(reqs) : LookupRule(r)
  \/ \E r \in 1..Len(reqs) : RecordHit(r)

SpecUrl == Init /\ [][NextUrl]_vars

\* Concurrent PUT and DELETE requests for one endpoint, over REST and MCP.
PutBodies ==
  { [forward_url |-> Url1, enabled |-> << >>, persist |-> <<FALSE>>],
    [forward_url |-> Url2, enabled |-> <<FALSE>>, persist |-> << >>],
    [forward_url |-> "not a url", enabled |-> <<TRUE>>, persist |-> <<TRUE>>] }
NextPuts ==
  \/ /\ Len(reqs) < MaxConc
     /\ \E via \in {"rest", "mcp"}, b \in PutBodies :
          PutRuleBegin(via, "gh", OkCred, b.forward_url, b.enabled, b.persist)
  \/ \E r \in 1..Len(reqs) : PutRuleUpsert(r)
  \/ DeleteRule("gh", OkCred)
  \/ McpDeleteRule(OkCred, "gh")
  \/ \E d \in TickSteps : Tick(d)

SpecPuts == Init /\ [][NextPuts]_vars

\* Deliveries to the github route of an endpoint whose rule is put and
\* changed meanwhile: a text that is no JSON, a pull request, a long push.
NextGithub ==
  \/ /\ Len(reqs) < MaxReqs
     /\ \E b \in {BodyText, BodyPull, BodyPush}, t \in PathTokens("gh") :
          Receive("github", "gh", t, b)
  \/ Pipeline
  \/ \E e \in BOOLEAN, p \in BOOLEAN : PutRule("gh", OkCred, Url1, <<e>>, <<p>>)

SpecGithub == Init /\ [][NextGithub]_vars

\* The deployment's secret is replaced: env.API_TOKEN is another text
\* from now on.
Rotate(s) ==
  /\ s # apiToken
  /\ apiToken' = s
  /\ UNCHANGED <<ui, lineToken, now, hits, hitOrigin, rules, aliases, aliasSeq,
                 reqs, last, purgeRun, ops>>

\* The credential of the operator: the bearer header with the current
\* secret.
CurCred == [authorization |-> Bearer(apiToken), cookie |-> << >>]

\* Deliveries with the URLs issued under either secret, among operations on
\* hits, rules and aliases, clock advances and changes of the secret.
NextRotate ==
  \/ /\ Len(reqs) < MaxConc
     /\ \E i \in 1..Len(Secrets) :
          Receive("suffix", "gh", generateWebhookToken("gh", Secrets[i]), BodyText)
  \/ Pipeline
  \/ \E d \in TickSteps : Tick(d)
  \/ \E i \in 1..Len(Secrets) : Rotate(Secrets[i])
  \/ \E p \in BOOLEAN : PutRule("gh", CurCred, Url1, <<TRUE>>, <<p>>)
  \/ PutAlias(CurCred, "C1", "Ops")
  \/ Purge(CurCred)
  \/ GenerateUrl(CurCred, "gh")

SpecRotate == Init /\ [][NextRotate]_vars

\* Management of rules and aliases over REST and over MCP, and the purge,
\* beside deliveries to an endpoint without a rule.
NextManage ==
  \/ /\ Len(reqs) < MaxReqs
     /\ Receive("suffix", "line", generateWebhookToken("line", Secrets[1]), BodyLine)
  \/ \E r \in 1..Len(reqs) : LookupRule(r)
  \/ \E r \in 1..Len(reqs) : RecordHit(r)
  \/ \E d \in TickSteps : Tick(d)
  \/ \E b \in RuleBodies : PutRule("gh", OkCred, b.forward_url, b.enabled, b.persist)
  \/ PutRuleBadBody("gh", OkCred)
  \/ DeleteRule("gh", OkCred)
  \/ \E b \in McpRuleBodies :
       McpSetRule(OkCred, "gh", b.forward_url, b.enabled, b.persist)
  \/ McpDeleteRule(OkCred, "gh")
  \/ \E v \in AliasValueInputs, l \in AliasLabelInputs : PutAlias(OkCred, v, l)
  \/ PutAliasBadBody(OkCred)
  \/ \E id \in 1..(aliasSeq + 1) : DeleteAlias(OkCred, id)
  \/ \E v \in AliasValueInputs, l \in AliasLabelInputs : McpSetAlias(OkCred, v, l)
  \/ \E id \in 1..(aliasSeq + 1) : McpDeleteAlias(OkCred, id)
  \/ Purge(OkCred)
  \/ McpPurge(OkCred)

SpecManage == Init /\ [][NextManage]_vars

\* C11: the alias store holds at most one row per value (and per id); a
\* step that writes a row whose value was already stored keeps that row's
\* id and created_at, replaces only that row, and adds no row.
C11_OnePerValue ==
  \A a, b \in aliases : (a.value = b.value \/ a.id = b.id) => a = b

C11_UpsertStep ==
  \A b \in aliases' \ aliases :
    \A a \in aliases :
      a.value = b.value =>
        /\ b.id = a.id /\ b.created_at = a.created_at
        /\ aliases' = (aliases \ {a}) \cup {b}
        /\ aliasSeq' = aliasSeq

C11_AliasUniquePerValue == []C11_OnePerValue /\ [][C11_UpsertStep]_vars

C11_Witness ==
  \E a \in aliases :
    /\ last = AliasAnswer("putAlias", 200, a.value, "Ops")
    /\ a.label = "Ops" /\ a.created_at < now
    /\ a.id = 1 /\ aliasSeq = 2 /\ Cardinality(aliases) = 2

\* C12: after any sequence of rule upserts and deletes through the REST
\* API and the MCP tools the rule store holds at most one rule per
\* endpoint, and an upsert of a stored endpoint keeps its created_at.
C12_OnePerEndpoint ==
  \A a, b \in rules : a.endpoint = b.endpoint => a = b

C12_RuleStep ==
  /\ Cardinality(rules') <= Cardinality(rules) + 1
  /\ \A a \in rules, b \in rules' :
       a.endpoint = b.endpoint => a.created_at = b.created_at

C12_RuleUniquePerEndpoint == []C12_OnePerEndpoint /\ [][C12_RuleStep]_vars

C12_Witness ==
  \E r \in rules :
    /\ r.created_at < r.updated_at
    /\ last = McpAnswer("set_forward_rule", 200, FALSE)
    /\ ops = 2

\* A step is a query of the hit store that answered with rows.
IsHitsQuery == ops' = ops + 1 /\ last'.op = "hits" /\ last'.status = 200
IsMcpHitsQuery ==
  ops' = ops + 1 /\ last'.op = "webhook_hits" /\ last'.status = 200

\* The Hits of the store the endpoint filter of a query lets through.
OfEndpoint(e) == {i \in DOMAIN hits : Falsy(e) \/ hits[i].endpoint = e}

\* C13: GET /api/hits with date=today or with no date returns only Hits
\* whose received_at lies within [00:00:00.000, 23:59:59.999] of the current
\* calendar day at UTC+7; a Hit of 23:59:59.500 of that day is returned, a
\* Hit of 00:00:00.500 of the next day, like any Hit of another day, is not.
C13_TodayStep ==
  (IsHitsQuery /\ last'.date.kind \in {"none", "today"}) =>
    \E d \in 0..1 :
      /\ FromOf(d) <= now /\ now <= ToOf(d)
      /\ \A i \in DOMAIN last'.rows :
           /\ i \in DOMAIN hits
           /\ hits[i].received_at >= d * DayMs - Gmt7OffsetMs
           /\ hits[i].received_at <= (d + 1) * DayMs - Gmt7OffsetMs - 1
      /\ \A i \in OfEndpoint(last'.endpoint) :
           /\ hits[i].received_at = (d + 1) * DayMs - Gmt7OffsetMs - 500
                => i \in DOMAIN last'.rows
           /\ hits[i].received_at = (d + 1) * DayMs - Gmt7OffsetMs + 500
                => i \notin DOMAIN last'.rows
C13_TodayWithinDay == [][C13_TodayStep]_vars
\* Queried on the next day, the Hit of 23:59:59.500 is left out and the Hit
\* of that day is returned.
C13_Witness ==
  /\ last.op = "hits" /\ last.status = 200 /\ last.date.kind = "none"
  /\ last.at = FromOf(1) + 500
  /\ \E i, j \in DOMAIN hits :
       /\ hits[i].received_at = ToOf(0) - 499 /\ i \notin DOMAIN last.rows
       /\ hits[j].received_at = FromOf(1) + 500 /\ j \in DOMAIN last.rows

\* C14: the date filter returns every Hit of the requested day at UTC+7
\* that passes the endpoint filter when fewer than 500 match, the interval
\* being closed: a Hit of the first and a Hit of the last millisecond of the
\* day are in the answer of GET /api/hits and of webhook_hits.
C14_EveryHitOfDayStep ==
  ((IsHitsQuery \/ (IsMcpHitsQuery /\ last'.count = Cardinality(DOMAIN
        SelectHits(hits, FromOf(QueryDay(last'.date, now)),
                   ToOf(QueryDay(last'.date, now)), last'.endpoint, "asc"))))
     /\ last'.date.kind = "day") =>
    LET day == last'.date.day
        ofDay == {i \in OfEndpoint(last'.endpoint) :
                    /\ hits[i].received_at >= day * DayMs - Gmt7OffsetMs
                    /\ hits[i].received_at <= (day + 1) * DayMs - Gmt7OffsetMs - 1}
    IN Cardinality(ofDay) < PageSize => ofDay \subseteq DOMAIN last'.rows
C14_EveryHitOfDay == [][C14_EveryHitOfDayStep]_vars

\* C15: the answer of GET /api/hits is ordered by received_at, newest
\* first, holds at most 500 Hits, only Hits of the endpoint when the
\* endpoint filter is present, and the 500 newest when more than 500 match.
C15_PageStep ==
  IsHitsQuery =>
    LET rows == last'.rows
        day == IF last'.date.kind = "day" THEN last'.date.day
               ELSE CHOOSE d \in 0..1 : FromOf(d) <= now /\ now <= ToOf(d)
        ofDay == {i \in OfEndpoint(last'.endpoint) :
                    /\ hits[i].received_at >= day * DayMs - Gmt7OffsetMs
                    /\ hits[i].received_at <= (day + 1) * DayMs - Gmt7OffsetMs - 1}
    IN /\ DOMAIN rows \subseteq ofDay
       /\ Cardinality(DOMAIN rows) = Min(Cardinality(ofDay), 500)
       /\ {rows[i].pos : i \in DOMAIN rows} = 1..Cardinality(DOMAIN rows)
       /\ \A i, j \in DOMAIN rows :
            rows[i].pos < rows[j].pos =>
              hits[i].received_at >= hits[j].received_at
       /\ \A i \in DOMAIN rows, k \in ofDay \ DOMAIN rows :
            hits[i].received_at >= hits[k].received_at
C15_NewestFirstPage == [][C15_PageStep]_vars
\* More than 500 Hits of the endpoint matched and 500 came back.
C15_Witness ==
  /\ last.op = "hits" /\ last.status = 200 /\ last.endpoint = "line"
  /\ last.count = PageSize
  /\ Cardinality({i \in DOMAIN hits : hits[i].endpoint = "line"}) > PageSize
  /\ \E i, j \in DOMAIN last.rows :
       last.rows[i].pos = 1 /\ last.rows[j].pos = PageSize
         /\ last.rows[i].received_at > last.rows[j].received_at

\* A credential carries the secret: the bearer header is "Bearer <secret>",
\* or the cookie header, a list of name=value pairs separated by "; ", holds
\* the pair api_token=<secret>.
Carries(c, secret) ==
  \/ c.authorization = Bearer(secret)
  \/ /\ c.cookie # << >>
     /\ LET h == c.cookie[1]
            pair == CookieOf(secret)
            end(i) == i + Len(pair) - 1
        IN \E i \in 1..Len(h) :
             /\ end(i) <= Len(h)
             /\ SubSeq(h, i, end(i)) = pair
             /\ (i = 1 \/ (i > 2 /\ SubSeq(h, i - 2, i - 1) = "; "))
             /\ \/ end(i) = Len(h)
                \/ (end(i) + 2 <= Len(h)
                      /\ SubSeq(h, end(i) + 1, end(i) + 2) = "; ")

\* C16: with a secret configured, every management endpoint answers 401
\* and leaves the hit, rule and alias stores unchanged unless the request
\* carries Authorization: Bearer <secret> or a cookie api_token=<secret>,
\* and a request carrying either is authorized.
C16_AuthStep ==
  \A c \in AuthCreds(apiToken) :
    MgmtStep(c) =>
      IF Carries(c, apiToken)
      THEN last'.status # 401
      ELSE last'.status = 401 /\ UNCHANGED <<hits, rules, aliases, aliasSeq>>
C16_ManagementAuth == [][C16_AuthStep]_vars

\* C17: an authorized PUT of a forward rule whose JSON body has a missing,
\* empty or unparseable forward_url is answered 400 and leaves the rule
\* store unchanged; an authorized PUT of an alias whose JSON body has a
\* missing or empty value or label is answered 400 and leaves the alias
\* store unchanged.
C17_RejectStep ==
  /\ \A b \in RuleBodies :
       (PutRule("gh", OkCred, b.forward_url, b.enabled, b.persist)
          /\ b.forward_url \in UrlInputs \ {Url1}) =>
         last'.status = 400 /\ rules' = rules
  /\ \A v \in AliasValueInputs, l \in AliasLabelInputs :
       (PutAlias(OkCred, v, l) /\ (v \in {NullText, ""} \/ l \in {NullText, ""})) =>
         last'.status = 400 /\ aliases' = aliases /\ aliasSeq' = aliasSeq
C18_ReceiveStep ==
  Len(reqs') = Len(reqs) + 1 =>
    LET rq == reqs'[Len(reqs')]
    IN \A i \in 1..Len(Secrets) :
         rq.token = generateWebhookToken(rq.id, Secrets[i]) =>
           IF Secrets[i] = apiToken
           THEN rq.status # 401 /\ rq.pc = "lookup"
           ELSE rq.status = 401 /\ rq.pc = "done" /\ rq.hitId = Null
C18_TokenValidUntilRotation == [][C18_ReceiveStep]_vars
\* One URL, accepted after a clock advance and a stored rule, and rejected
\* after the secret changed.
C18_Witness ==
  /\ Len(reqs) = 2
  /\ reqs[1].token = reqs[2].token /\ reqs[1].id = reqs[2].id
  /\ reqs[1].status = 200 /\ reqs[1].received_at > 0 /\ rules # {}
  /\ reqs[2].status = 401
  /\ apiToken # Secrets[1]

\* C19: every Hit, of the raw route, of the github route and of a suffix
\* route, has a body of at most 4096 characters, and its body_length is the
\* full length of the body received.
C19_BodyCapped ==
  \A i \in DOMAIN hits :
    /\ hits[i].body.len <= 4096
    /\ hits[i].body_length = reqs[hitOrigin[i]].body.len

\* C20: the MCP tools mirror the REST operations: given the same arguments
\* and the same stores, set_forward_rule, delete_forward_rule, set_alias,
\* delete_alias and purge_old_hits leave the stores in the state PUT and
\* DELETE /api/forward-rules/:endpoint, PUT /api/aliases,
\* DELETE /api/aliases/:id and POST /api/purge leave them in, and reject
\* the inputs those reject.
C20_MirrorStep ==
  /\ \A b \in McpRuleBodies :
       McpSetRule(OkCred, "gh", b.forward_url, b.enabled, b.persist) =>
         LET rest == PutRuleEffect(rules, "gh", b.forward_url, b.enabled,
                                   b.persist, now)
         IN rules' = rest.rules /\ last'.isError = ~rest.ok
  /\ McpDeleteRule(OkCred, "gh") => rules' = DeleteRuleEffect(rules, "gh")
  /\ \A v \in AliasValueInputs, l \in AliasLabelInputs :
       McpSetAlias(OkCred, v, l) =>
         LET rest == PutAliasEffect(aliases, aliasSeq, v, l, now)
         IN /\ aliases' = rest.aliases
            /\ aliasSeq' = rest.seq
            /\ last'.isError = ~rest.ok
  /\ \A id \in 1..(aliasSeq + 1) :
       McpDeleteAlias(OkCred, id) => aliases' = DeleteAliasEffect(aliases, id)
  /\ McpPurge(OkCred) =>
       /\ hits' = purgeOldHits(hits, now).hits
       /\ last'.deleted = purgeOldHits(hits, now).deleted
C20_McpMirrorsRest == [][C20_MirrorStep]_vars

\* C21: for every non-empty endpoint id, the URL an authorized
\* GET /api/generate-url?id=<id> or the generate_webhook_url tool returns is
\* a signed URL of that endpoint: a POST to it is not answered 401 and is
\* recorded under endpoint = id.
C21_PostStep ==
  (IssuedUrl # << >> /\ Len(reqs') = Len(reqs) + 1) =>
    /\ reqs'[Len(reqs')].status # 401
    /\ reqs'[Len(reqs')].id = IssuedUrl[1].id
C21_IssuedUrlAccepted ==
  /\ [][C21_PostStep]_vars
  /\ [](\A h \in DOMAIN hits : hits[h].endpoint = reqs[hitOrigin[h]].id)

\* C22: under any interleaving of concurrent PUT and DELETE requests for
\* one endpoint, over REST or MCP, the stored rule, if any, has forward_url,
\* enabled, persist and updated_at all from one single PUT request.
C22_FromOnePut ==
  \A x \in rules :
    \E r \in 1..Len(reqs) :
      /\ reqs[r].pc = "done" /\ reqs[r].status = 200 /\ reqs[r].at # Null
      /\ x.endpoint = reqs[r].id
      /\ x.forward_url = reqs[r].forward_url
      /\ x.enabled = (reqs[r].enabled # <<FALSE>>)
      /\ x.persist = (reqs[r].persist # <<FALSE>>)
      /\ x.updated_at = reqs[r].at
C22_RuleWritesAtomic == []C22_FromOnePut
\* Two PUTs overlapped: the one that took its timestamp first wrote last,
\* over the row the other had inserted.
C22_Witness ==
  /\ Len(reqs) = 2 /\ reqs[1].pc = "done" /\ reqs[2].pc = "done"
  /\ reqs[1].at < reqs[2].at /\ reqs[1].route # reqs[2].route
  /\ \E x \in rules :
       /\ x.updated_at = reqs[1].at /\ x.created_at = reqs[2].at
       /\ x.forward_url = reqs[1].forward_url
       /\ reqs[1].forward_url # reqs[2].forward_url

\* C23: the Hit is persisted before the forward is scheduled and before the
\* acknowledgment: a request answered 200 whose rule did not have
\* persist=false has its Hit inserted, and the Hit is in the store unless it
\* is old enough to have been purged; the outbound POST of a request starts
\* in no step before the one that inserts its Hit.
C23_AckedIsStored ==
  \A r \in 1..Len(reqs) :
    (ShouldPersist(reqs[r].rule) /\ (reqs[r].status = 200 \/ reqs[r].posts > 0)) =>
      /\ reqs[r].inserted = 1
      /\ reqs[r].hitId \in 1..Len(hitOrigin)
      /\ hitOrigin[reqs[r].hitId] = r
      /\ \/ reqs[r].hitId \in DOMAIN hits
         \/ reqs[r].received_at < now - RetentionMs
C23_PostStep ==
  \A r \in 1..Len(reqs) :
    (reqs'[r].posts > reqs[r].posts /\ ShouldPersist(reqs'[r].rule)) =>
      reqs'[r].hitId \in DOMAIN hits'
C23_PersistBeforeAck == []C23_AckedIsStored /\ [][C23_PostStep]_vars
\* An acknowledged, forwarded request whose Hit has been purged since.
C23_Witness ==
  \E r \in 1..Len(reqs) :
    /\ reqs[r].status = 200 /\ reqs[r].posts = 1 /\ ShouldPersist(reqs[r].rule)
    /\ reqs[r].hitId \notin DOMAIN hits

\* C24: on the github route a request with a valid token is answered 200
\* and nothing else; a body that is no JSON is stored as the
\* "[event] (invalid JSON) ..." placeholder of at most 512 characters of the
\* body; a JSON body is stored as its summary; body_length is the length of
\* the raw body; and the forward, when scheduled, carries the raw body.
C24_GithubRequest ==
  \A r \in 1..Len(reqs) :
    (reqs[r].route = "github"
       /\ reqs[r].token = generateWebhookToken(reqs[r].id, apiToken)) =>
      /\ reqs[r].status \in {0, 200}
      /\ reqs[r].pc = "done" => reqs[r].status = 200
      /\ reqs[r].fwd.pc # "none" =>
           reqs[r].fwd.body = [name |-> reqs[r].body.name, form |-> "raw",
                               len |-> reqs[r].body.len]
      /\ \A h \in DOMAIN hits :
           hitOrigin[h] = r =>
             /\ hits[h].body_length = reqs[r].body.len
             /\ hits[h].suffix = "/github"
             /\ hits[h].body =
                  IF reqs[r].body.json
                  THEN [name |-> reqs[r].body.name, form |-> "summary",
                        len |-> reqs[r].body.summary]
                  ELSE [name |-> reqs[r].body.name, form |-> "placeholder",
                        len |-> Len("[unknown] (invalid JSON) ")
                                  + Min(reqs[r].body.len, 512)]
C25_UpsertStep ==
  \A r \in 1..Len(reqs) :
    (reqs[r].pc = "upsert" /\ reqs'[r].pc = "done") =>
      \E x \in rules' :
        /\ \A y \in rules' : y.endpoint = reqs[r].id => y = x
        /\ x.endpoint = reqs[r].id
        /\ x.forward_url = reqs[r].forward_url
        /\ x.enabled = (reqs[r].enabled \in {<< >>, <<TRUE>>})
        /\ x.persist = (reqs[r].persist \in {<< >>, <<TRUE>>})
        /\ x.updated_at = reqs[r].at
        /\ \A y \in rules : y.endpoint = reqs[r].id => x.created_at = y.created_at
        /\ (\A y \in rules : y.endpoint # reqs[r].id) => x.created_at = reqs[r].at
C25_UpsertReplaces == [][C25_UpsertStep]_vars
\* A rule stored with enabled false, then put again with enabled omitted
\* and another URL at a later time.
C25_Witness ==
  /\ Len(reqs) = 2
  /\ reqs[1].pc = "done" /\ reqs[1].enabled = <<FALSE>>
  /\ reqs[2].pc = "done" /\ reqs[2].enabled = << >>
  /\ \E x \in rules :
       /\ x.enabled /\ ~x.persist
       /\ x.forward_url = Url1
       /\ x.created_at = reqs[1].at /\ x.updated_at = reqs[2].at
       /\ x.created_at < x.updated_at

\* C26: autoAlias only creates aliases: no insert step of autoAlias
\* changes the label of an alias that is in the store when the step runs,
\* also when that alias was written between autoAlias's select and the
\* insert.
C26_InsertStep ==
  \A r \in 1..Len(reqs) :
    (/\ reqs[r].alias.pc = "insert"
     /\ reqs'[r].alias.results = Tail(reqs[r].alias.results)) =>
      \A a \in aliases : \E b \in aliases' : b.value = a.value /\ b.label = a.label
C26_AutoAliasOnlyCreates == [][C26_InsertStep]_vars

\* C27: a forward outcome is written only to the Hit the same request
\* inserted: the forward_* fields of a stored Hit change only in the
\* write-back of the request that inserted it, and a write-back whose Hit
\* was purged changes no row and creates none.
C27_FwdOf(h) == <<h.forward_status, h.forward_ms, h.forward_error>>
C27_Writes(r) == reqs[r].fwd.pc = "writing" /\ reqs'[r].fwd.pc = "done"
C27_WriteStep ==
  /\ \A i \in DOMAIN hits \cap DOMAIN hits' :
       C27_FwdOf(hits'[i]) # C27_FwdOf(hits[i]) =>
         \E r \in 1..Len(reqs) :
           C27_Writes(r) /\ hitOrigin[i] = r /\ reqs[r].hitId = i
  /\ \A r \in 1..Len(reqs) :
       C27_Writes(r) =>
         /\ DOMAIN hits' = DOMAIN hits
         /\ \A i \in DOMAIN hits : i # reqs[r].hitId => hits'[i] = hits[i]
         /\ reqs[r].hitId \notin DOMAIN hits => hits' = hits
C27_OutcomeOnOwnHit == [][C27_WriteStep]_vars
\* Two deliveries: the first one's Hit was purged before its write-back
\* ran, the second one's Hit is stored and carries its own outcome.
C27_Witness ==
  /\ Len(reqs) = 2
  /\ reqs[1].fwd.pc = "done" /\ reqs[2].fwd.pc = "done"
  /\ reqs[1].hitId = 1 /\ reqs[2].hitId = 2
  /\ DOMAIN hits = {2}
  /\ hits[2].forward_status = reqs[2].fwd.status
  /\ reqs[1].fwd.status # reqs[2].fwd.status

\* ------------------------------------------------------- the fetch handler
\* What env.ASSETS.fetch(request) may answer: the static asset service
\* serves a file, has none, or refuses the method; its body is a file of
\* the site, never the response of a route handler.
AssetResponses ==
  {[status |-> st, body |-> "asset"] : st \in {200, 404, 405}}

\* default.fetch: a 404 of the application is replaced by the answer of
\* the asset service; every other response is passed on.
DefaultFetch(res, asset) == IF res.status = 404 THEN asset ELSE res

\* The status and the JSON body of POST /api/aliases/resolve.
ResolveStatus(cred, id, named) ==
  IF ~checkAuth(cred, apiToken) THEN 401
  ELSE IF ~lineToken THEN 500
  ELSE IF Falsy(id) THEN 400
  ELSE IF ResolvedName(id, named) = NullText THEN 404
  ELSE 200
ResolveBody(status) ==
  CASE status = 401 -> "Unauthorized"
    [] status = 500 -> "No LINE_CHANNEL_ACCESS_TOKEN configured"
    [] status = 400 -> "Missing id"
    [] status = 404 -> "Could not resolve name from LINE API"
    [] OTHER -> "ok"

\* POST /api/aliases/resolve as the client of the worker sees it: the
\* route handler, then default.fetch on its response.
FetchResolve(cred, id, named, asset) ==
  /\ ops < MaxOps
  /\ ops' = ops + 1
  /\ LET status == ResolveStatus(cred, id, named)
         res == DefaultFetch([status |-> status, body |-> ResolveBody(status)],
                             asset)
     IN /\ last' = [op |-> "resolve", status |-> res.status, deleted |-> 0,
                    value |-> id, label |-> ResolvedName(id, named),
                    body |-> res.body]
        /\ aliases' = IF status = 200
                      THEN UpsertAlias(aliases, aliasSeq, id,
                                       ResolvedName(id, named), now)
                      ELSE aliases
        /\ aliasSeq' = IF status = 200
                       THEN UpsertAliasSeq(aliases, aliasSeq, id)
                       ELSE aliasSeq
  /\ UNCHANGED <<ui, apiToken, lineToken, now, hits, hitOrigin, rules, reqs,
                 purgeRun>>

\* SpecResolve: resolve requests with any credential and id, the LINE API
\* naming the id or not, against aliases put by hand.
NextResolve ==
  \/ \E c \in Creds, id \in ResolveIdInputs, named \in BOOLEAN,
        asset \in AssetResponses : FetchResolve(c, id, named, asset)
  \/ \E v \in {"C1", "U1"}, l \in {"Ops", "Dev"} : PutAlias(OkCred, v, l)

SpecResolve == Init /\ [][NextResolve]_vars

\* C28: an authorized POST /api/aliases/resolve for which the LINE API
\* yields no name is answered to the client with status 404 and the body
\* error 'Could not resolve name from LINE API', the alias store unchanged.
C28_ResolveStep ==
  \A c \in Creds, id \in ResolveIdInputs, named \in BOOLEAN,
     asset \in AssetResponses :
    (FetchResolve(c, id, named, asset) /\ ResolveStatus(c, id, named) = 404) =>
      /\ last'.status = 404
      /\ last'.body = "Could not resolve name from LINE API"
      /\ aliases' = aliases
C28_ResolveNotFound == [][C28_ResolveStep]_vars

\* ----------------------------------------------- Dashboard and Today pages
Pages == {"Dashboard", "Today"}
POLL_INTERVAL(page) == IF page = "Dashboard" THEN 5 ELSE 10

\* poll() up to its first await: setLoading(true), then the fetch is out.
\* The cause of the call is kept with the poll in flight.
StartPoll(u, cause) == [u EXCEPT !.loading = TRUE, !.polls = Append(@, cause)]

\* The page is rendered: remaining = POLL_INTERVAL, loading = false, and
\* the mount effect useEffect(() => { poll(); }, [poll]) runs.
Mount(page) ==
  /\ ui.page = "none"
  /\ ui' = StartPoll([page |-> page, remaining |-> POLL_INTERVAL(page),
                      loading |-> FALSE, polls |-> << >>], "mount")
  /\ UNCHANGED <<apiToken, lineToken, now, hits, hitOrigin, rules, aliases,
                 aliasSeq, reqs, last, purgeRun, ops>>

\* The callback of setInterval(..., 1000):
\* setRemaining(r => { if (r <= 1) { poll(); return 0; } return r - 1; }).
IntervalTick ==
  /\ ui.page # "none"
  /\ IF ui.remaining <= 1
     THEN /\ Len(ui.polls) < MaxPolls
          /\ ui' = StartPoll([ui EXCEPT !.remaining = 0], "countdown")
     ELSE ui' = [ui EXCEPT !.remaining = @ - 1]
  /\ UNCHANGED <<apiToken, lineToken, now, hits, hitOrigin, rules, aliases,
                 aliasSeq, reqs, last, purgeRun, ops>>

\* A click on the PollBadge: onPoll = () => { setRemaining(0); poll(); }.
BadgeClick ==
  /\ ui.page # "none"
  /\ Len(ui.polls) < MaxPolls
  /\ ui' = StartPoll([ui EXCEPT !.remaining = 0], "badge")
  /\ UNCHANGED <<apiToken, lineToken, now, hits, hitOrigin, rules, aliases,
                 aliasSeq, reqs, last, purgeRun, ops>>

\* onRefresh = poll, called by the feed and by the rule form after a save.
Refresh ==
  /\ ui.page # "none"
  /\ Len(ui.polls) < MaxPolls
  /\ ui' = StartPoll(ui, "refresh")
  /\ UNCHANGED <<apiToken, lineToken, now, hits, hitOrigin, rules, aliases,
                 aliasSeq, reqs, last, purgeRun, ops>>

\* The fetch of poll i settles.  On 401 the page is left through
\* onLogout() and poll returns; on a response or a caught error poll ends
\* with setLoading(false) and setRemaining(POLL_INTERVAL).
PollOutcomes == {"ok", "failed", "unauthorized"}
WithoutPoll(polls, i) == SubSeq(polls, 1, i - 1) \o SubSeq(polls, i + 1, Len(polls))
PollSettle(i, outcome) ==
  /\ ui.page # "none"
  /\ i \in 1..Len(ui.polls)
  /\ ui' = IF outcome = "unauthorized" THEN NoPage
           ELSE [ui EXCEPT !.polls = WithoutPoll(@, i), !.loading = FALSE,
                           !.remaining = POLL_INTERVAL(ui.page)]
  /\ UNCHANGED <<apiToken, lineToken, now, hits, hitOrigin, rules, aliases,
                 aliasSeq, reqs, last, purgeRun, ops>>

\* SpecPoll: one page, its interval timer, its badge and its refresh
\* callback, with polls settling in any order.
NextPoll ==
  \/ \E page \in Pages : Mount(page)
  \/ IntervalTick
  \/ BadgeClick
  \/ Refresh
  \/ \E i \in 1..MaxPolls, o \in PollOutcomes : PollSettle(i, o)

SpecPoll == Init /\ [][NextPoll]_vars

\* C29: on the Dashboard and Today pages at most one poll is in flight at
\* any time: while a poll has not completed, the countdown tick starts no
\* other poll; and a completed poll restarts the countdown from
\* POLL_INTERVAL.
C29_AtMostOne == Len(ui.polls) <= 1
C29_PollStep ==
  /\ (ui.page # "none" /\ ui.polls # << >> /\ ui'.page = ui.page)
       => Len(ui'.polls) <= Len(ui.polls)
  /\ (ui'.page = ui.page /\ Len(ui'.polls) < Len(ui.polls))
       => ui'.remaining = POLL_INTERVAL(ui.page)
C29_OnePollInFlight == []C29_AtMostOne /\ [][C29_PollStep]_vars

\* ------------------------------------------------------------------ login
\* POST /auth/login: the credential is `${user}:${pass}` of the form
\* (a missing field reads as the text null); 401 without a secret or when
\* it differs from the secret, else 200 with the api_token cookie.
LoginInputs == {<<"admin", "pw1">>, <<"admin", "pw2">>, <<"null", "null">>}
Login(user, pass) ==
  LET credential == user \o ":" \o pass
  IN Reads(IF apiToken = NoToken \/ credential # apiToken
           THEN ReadAnswer("login", 401, << >>)
           ELSE ReadAnswer("login", 200, << CookieOf(credential) >>))

\* SpecOpen: a deployment without API_TOKEN: deliveries with the token a
\* secret would issue, a tampered one and an arbitrary text; management
\* requests with every credential; logins; URL requests with and without
\* an id.
OpenTokens(id) == PathTokens(id) \cup {<<"x">>}
UrlIds == {NullText, "", "gh"}

InitOpen == InitWith(NoToken)

NextOpen ==
  \/ /\ Len(reqs) < MaxReqs
     /\ \E q \in Inbound : \E t \in OpenTokens(q.id) :
          Receive(q.route, q.id, t, q.body)
  \/ Pipeline
  \/ AliasTask
  \/ \E c \in AuthCreds(Secrets[1]) : MgmtStep(c)
  \/ \E c \in AuthCreds(Secrets[1]), id \in UrlIds : GenerateUrl(c, id)
  \/ \E l \in LoginInputs : Login(l[1], l[2])

SpecOpen == InitOpen /\ [][NextOpen]_vars

\* The parts of C30 that do not concern the status of generate-url: no
\* delivery is refused for its path token, no management request is
\* refused for its credential, a login is answered 401 without a cookie,
\* and no URL is issued.
C30_Accepts == \A r \in 1..Len(reqs) : reqs[r].status # 401
C30_OpenStep ==
  ops' = ops + 1 =>
    /\ last'.op # "login" => last'.status # 401
    /\ last'.op = "login" => last'.status = 401 /\ last'.result = << >>
    /\ last'.op = "generate-url" => last'.status # 200 /\ last'.result = << >>

====
